---- MODULE Spec2Model ----
(***************************************************************************)
(* Model of the retrieval pipeline of doc-qa-system:                       *)
(*   - the resilience kernel (withRetry, CircuitBreaker) of                *)
(*     src/mcp/utils/mcp-helpers.ts,                                       *)
(*   - the document processor (documentChunkAndEmbed, splitTextIntoChunks, *)
(*     findSentenceBoundary) of the document-processor tool,               *)
(*   - the vector index adapter (upsertVectors, deleteVectors) of          *)
(*     src/services/vector.ts,                                             *)
(*   - question answering (documentQAQuery, vectorSimilaritySearch,        *)
(*     prepareContext, mockLLMGeneration) and the chat route,              *)
(*   - googleDriveListFiles of src/mcp/tools/google-drive.ts,              *)
(*   - the lifecycle of the collection (initializeCollection at module     *)
(*     load, resetKnowledgeBase),                                          *)
(*   - the L2 normalization of upsertVectors and mockGenerateEmbedding.    *)
(* Each component has its own specification over the shared variables:     *)
(* BreakerSpec, RetrySpec, ChunkSpec, IndexSpec, QuerySpec, DriveSpec,     *)
(* LifecycleSpec and NormSpec.                                             *)
(***************************************************************************)

EXTENDS Integers, Sequences, FiniteSets, TLC

VARIABLES
    \* ---- CircuitBreaker (one shared instance, several callers) ----
    config,       \* this.config
    state,        \* this.state: status, failures, lastFailure, nextAttempt
    now,          \* the value Date.now() returns
    pc,           \* per caller: "idle" or "running" (wrapped fn in flight)
    outcome,      \* per caller: how its last execute() settled
    calls,        \* number of execute() calls made so far
    failRun,      \* history: failing completions since the last success
    admittedFrom, \* history, per caller: the status its last execute() found on entry
    rejections,   \* history: rejected completions since construction or the last reset()
    \* ---- withRetry ----
    retryConfig,  \* the merged policy
    attempt,      \* loop variable of withRetry
    rpc,          \* "call" | "delay" | "returned" | "threw"
    lastError,    \* lastError of withRetry
    invocations,  \* history: how many times fn was invoked
    rfails,       \* history: how many of these invocations rejected
    delays,       \* history: the pauses performed, in order
    rresult,      \* what withRetry returned or threw
    \* ---- documentChunkAndEmbed / splitTextIntoChunks ----
    input,        \* the DocumentChunkAndEmbedInput
    dpc,          \* "start" | "chunking" | "embedding" | "returned" | "threw"
    startIndex,   \* loop variable of splitTextIntoChunks
    chunkIndex,   \* loop variable of splitTextIntoChunks
    chunks,       \* the chunk list under construction / returned
    derr,         \* the error documentChunkAndEmbed threw
    output,       \* the DocumentChunkAndEmbedOutput
    \* ---- vector index adapter (upsertVectors, deleteVectors) ----
    collection,   \* the Qdrant collection: point id -> [vector, payload]
    upc,          \* "idle" | "write" | "verify" | "pause" | "returned" | "threw"
    op,           \* the adapter call in progress or last made
    points,       \* points of upsertVectors
    cursor,       \* position of the for loop in points
    retries,      \* retries of upsertVectors
    uresult,      \* what the adapter call returned or threw
    tries,        \* history: attempts made for the current point
    pointPauses,  \* history: pauses made for the current point
    cause,        \* history: message of the error of the last failed attempt
    retrieved,    \* history: what the last read-back returned
    latest,       \* history: per (documentId, chunkIndex), the vector last written
    ncalls,       \* history: number of adapter calls made
    removed,      \* history: number of points the last delete removed
    curDoc,       \* the document being ingested
    curN,         \* its number of chunks
    oldN,         \* history: the number of chunks of its previous version
    prevN,        \* history: per document, the chunks of its last completed ingestion
    \* ---- documentQAQuery and the chat route ----
    qinput,       \* the DocumentQAQueryInput
    via,          \* "chat": through POST /api/chat/query; "tool": the tool called directly
    qpc,          \* "route" | "start" | "embed" | "search" | "generate" | "returned" | "threw" | "responded"
    embedding,    \* where the query embedding came from
    searchResults, \* what searchSimilar returned
    results,      \* the results of vectorSimilaritySearch
    context,      \* the context prepareContext built
    answer,       \* the answer of mockLLMGeneration
    qoutput,      \* the DocumentQAQueryOutput
    qerror,       \* the error documentQAQuery threw
    response,     \* the body the chat route sent
    failedStep,   \* history: the step whose failure made documentQAQuery throw
    provider,     \* history: how the generative provider behaved
    \* ---- googleDriveListFiles ----
    driveBreaker, \* the state of the module's circuitBreaker
    authed,       \* oauth2Client.credentials.refresh_token is set
    gnow,         \* the value Date.now() returns
    gpc,          \* "idle" | "call" | "returned" | "threw"
    gattempt,     \* attempt of withRetry
    listCalls,    \* history: invocations of drive.files.list in this call
    raw,          \* history: the error drive.files.list last rejected with
    gresult,      \* what googleDriveListFiles returned or threw
    driveCalls,   \* history: number of googleDriveListFiles calls
    \* ---- index lifecycle (initializeCollection, resetKnowledgeBase) ----
    schema,       \* the configuration of the collection, NoSchema when it does not exist
    ipc,          \* initializeCollection: "delete" | "create" | "done" | "failed"
    kpc,          \* resetKnowledgeBase: "idle" | "delete" | "create" | "returned" | "threw"
    kresult,      \* what resetKnowledgeBase returned or threw
    committed,    \* history: ids written by upsertVectors calls that returned
    resets,       \* history: number of resetKnowledgeBase calls
    \* ---- L2 normalization ----
    nvec,         \* the vector to normalize
    npc,          \* "raw" | "point" | "embedding"
    nout          \* the normalized vector

breakerVars == <<config, state, now, pc, outcome, calls, failRun, admittedFrom, rejections>>
retryVars   == <<retryConfig, attempt, rpc, lastError, invocations, rfails, delays, rresult>>
chunkVars   == <<input, dpc, startIndex, chunkIndex, chunks, derr, output>>
indexVars   == <<collection, upc, op, points, cursor, retries, uresult, tries, pointPauses,
                 cause, retrieved, latest, ncalls, removed, curDoc, curN, oldN, prevN>>
queryVars   == <<qinput, via, qpc, embedding, searchResults, results, context, answer,
                 qoutput, qerror, response, failedStep, provider>>
driveVars   == <<driveBreaker, authed, gnow, gpc, gattempt, listCalls, raw, gresult, driveCalls>>
lifecycleVars == <<schema, ipc, kpc, kresult, committed, resets>>
normVars    == <<nvec, npc, nout>>
vars        == <<config, state, now, pc, outcome, calls, failRun, admittedFrom, rejections,
                 retryConfig, attempt, rpc, lastError, invocations, rfails, delays, rresult,
                 input, dpc, startIndex, chunkIndex, chunks, derr, output,
                 collection, upc, op, points, cursor, retries, uresult, tries, pointPauses,
                 cause, retrieved, latest, ncalls, removed, curDoc, curN, oldN, prevN,
                 qinput, via, qpc, embedding, searchResults, results, context, answer,
                 qoutput, qerror, response, failedStep, provider,
                 driveBreaker, authed, gnow, gpc, gattempt, listCalls, raw, gresult, driveCalls,
                 schema, ipc, kpc, kresult, committed, resets,
                 nvec, npc, nout>>

\* null / undefined of the source
Null == -1

Max(S) == CHOOSE x \in S : \A y \in S : y <= x
Min(S) == CHOOSE x \in S : \A y \in S : x <= y
MinOf(a, b) == IF a <= b THEN a ELSE b
MaxOf(a, b) == IF a >= b THEN a ELSE b

RECURSIVE Pow(_, _)
Pow(b, e) == IF e = 0 THEN 1 ELSE b * Pow(b, e - 1)

\* JavaScript truthiness of a number-or-null
Truthy(x) == x # Null /\ x # 0

(***************************************************************************)
(*                           CircuitBreaker                                *)
(***************************************************************************)

\* bounds of the breaker model
MaxCalls == 7
MaxNow == 100000
Callers == {"c1", "c2"}
TickSteps == {10000, 30000}
StartTimes == {10000}
Thresholds == {1, 2, 5}

defaultCircuitBreakerConfig ==
    [failureThreshold |-> 5, recoveryTimeout |-> 30000, monitoringWindow |-> 60000]

\* the state the constructor sets
initialState == [status |-> "closed", failures |-> 0, lastFailure |-> Null, nextAttempt |-> Null]

reset == [status |-> "closed", failures |-> 0, lastFailure |-> Null, nextAttempt |-> Null]

updateState_LateRecovery(s, t) ==
    IF s.status = "open" /\ Truthy(s.nextAttempt) /\ t > s.nextAttempt
    THEN [s EXCEPT !.status = "half-open"]
    ELSE s

updateState(s, t) ==
    IF s.status = "open" /\ Truthy(s.nextAttempt) /\ t >= s.nextAttempt
    THEN [s EXCEPT !.status = "half-open"]
    ELSE s

onSuccess_ResetsAlways(s) == reset

onSuccess_KeepsCount(s) == IF s.status = "half-open" THEN [s EXCEPT !.status = "closed"] ELSE s

onSuccess(s) == IF s.status = "half-open" THEN reset ELSE s

onFailure_DropsWhenOpen(s, cfg, t) ==
    LET s1 == [s EXCEPT !.failures = @ + 1, !.lastFailure = t] IN
    IF s.status = "open"
    THEN s
    ELSE IF s1.status = "closed"
         THEN IF s1.failures >= cfg.failureThreshold
              THEN [s1 EXCEPT !.status = "open", !.nextAttempt = t + cfg.recoveryTimeout]
              ELSE s1
         ELSE [s1 EXCEPT !.status = "open", !.nextAttempt = t + cfg.recoveryTimeout]

onFailure_OpensWithoutDeadline(s, cfg, t) ==
    LET s1 == [s EXCEPT !.failures = @ + 1, !.lastFailure = t] IN
    IF s1.status = "closed"
    THEN IF s1.failures >= cfg.failureThreshold
         THEN [s1 EXCEPT !.status = "open"]
         ELSE s1
    ELSE IF s1.status = "half-open"
         THEN [s1 EXCEPT !.status = "open", !.nextAttempt = t + cfg.recoveryTimeout]
         ELSE s1

onFailure_StrictThreshold(s, cfg, t) ==
    LET s1 == [s EXCEPT !.failures = @ + 1, !.lastFailure = t] IN
    IF s1.status = "closed"
    THEN IF s1.failures > cfg.failureThreshold
         THEN [s1 EXCEPT !.status = "open", !.nextAttempt = t + cfg.recoveryTimeout]
         ELSE s1
    ELSE IF s1.status = "half-open"
         THEN [s1 EXCEPT !.status = "open", !.nextAttempt = t + cfg.recoveryTimeout]
         ELSE s1

onFailure(s, cfg, t) ==
    LET s1 == [s EXCEPT !.failures = @ + 1, !.lastFailure = t] IN
    IF s1.status = "closed"
    THEN IF s1.failures >= cfg.failureThreshold
         THEN [s1 EXCEPT !.status = "open", !.nextAttempt = t + cfg.recoveryTimeout]
         ELSE s1
    ELSE IF s1.status = "half-open"
         THEN [s1 EXCEPT !.status = "open", !.nextAttempt = t + cfg.recoveryTimeout]
         ELSE s1

\* execute(), up to the await of the wrapped function
ExecuteCall(c) ==
    /\ pc[c] = "idle"
    /\ calls < MaxCalls
    /\ calls' = calls + 1
    /\ admittedFrom' = [admittedFrom EXCEPT ![c] = state.status]
    /\ LET s == updateState(state, now) IN
       /\ state' = s
       /\ IF s.status = "open"
          THEN /\ outcome' = [outcome EXCEPT ![c] = "CIRCUIT_OPEN"]
               /\ pc' = pc
          ELSE /\ pc' = [pc EXCEPT ![c] = "running"]
               /\ outcome' = [outcome EXCEPT ![c] = "pending"]
    /\ UNCHANGED <<config, now, failRun, rejections>>

\* execute(), the wrapped function resolved
FnResolves(c) ==
    /\ pc[c] = "running"
    /\ state' = onSuccess(state)
    /\ pc' = [pc EXCEPT ![c] = "idle"]
    /\ outcome' = [outcome EXCEPT ![c] = "resolved"]
    /\ failRun' = 0
    /\ rejections' = IF state.status = "half-open" THEN 0 ELSE rejections
    /\ UNCHANGED <<config, now, calls, admittedFrom>>

\* execute(), the wrapped function rejected
FnRejects(c) ==
    /\ pc[c] = "running"
    /\ state' = onFailure(state, config, now)
    /\ pc' = [pc EXCEPT ![c] = "idle"]
    /\ outcome' = [outcome EXCEPT ![c] = "rejected"]
    /\ failRun' = failRun + 1
    /\ rejections' = rejections + 1
    /\ UNCHANGED <<config, now, calls, admittedFrom>>

getState ==
    /\ state' = updateState(state, now)
    /\ UNCHANGED <<config, now, pc, outcome, calls, failRun, admittedFrom, rejections>>

\* the clock advances
Tick ==
    /\ \E d \in TickSteps :
          /\ now + d <= MaxNow
          /\ now' = now + d
    /\ UNCHANGED <<config, state, pc, outcome, calls, failRun, admittedFrom, rejections>>

(***************************************************************************)
(*                              withRetry                                  *)
(***************************************************************************)

MaxAttemptsBound == 4

defaultRetryConfig ==
    [maxAttempts |-> 3, baseDelay |-> 1000, maxDelay |-> 10000, backoffMultiplier |-> 2,
     retryableErrors |-> {"RATE_LIMITED", "NETWORK_ERROR", "TIMEOUT_ERROR", "TEMPORARY_FAILURE"}]

\* codes an operation's error may carry; "" stands for an error without code
ErrorCodes == {"RATE_LIMITED", "NETWORK_ERROR", "AUTHENTICATION_FAILED", ""}
\* Math.random() * 0.3 + 0.85, in percent
Jitters == {85, 100, 114}

NoError == [code |-> "none", id |-> 0]
NoResult == [kind |-> "none", id |-> 0]

\* (error as MCPError).code || 'UNKNOWN_ERROR'
errorCode(e) == IF e.code = "" THEN "UNKNOWN_ERROR" ELSE e.code

isRetryable_Always(cfg, e) == TRUE

isRetryable(cfg, e) == errorCode(e) \in cfg.retryableErrors

isLastAttempt_OffByOne(cfg, a) == a = cfg.maxAttempts + 1

isLastAttempt(cfg, a) == a = cfg.maxAttempts

\* Math.min(baseDelay * Math.pow(backoffMultiplier, attempt - 1), maxDelay), with jitter
finalDelay(cfg, a, j) ==
    (MinOf(cfg.baseDelay * Pow(cfg.backoffMultiplier, a - 1), cfg.maxDelay) * j) \div 100

pause_SkipFirst(ds, a, d) == IF a = 1 THEN ds ELSE Append(ds, d)

\* await new Promise(resolve => setTimeout(resolve, finalDelay))
pause(ds, a, d) == Append(ds, d)

\* return await fn(), fn resolved
RetryFnResolves ==
    /\ rpc = "call"
    /\ attempt <= retryConfig.maxAttempts
    /\ invocations' = invocations + 1
    /\ rpc' = "returned"
    /\ rresult' = [kind |-> "value", id |-> invocations + 1]
    /\ UNCHANGED <<retryConfig, attempt, lastError, rfails, delays>>

\* return await fn(), fn rejected with an error: the catch block
RetryFnRejects ==
    /\ rpc = "call"
    /\ attempt <= retryConfig.maxAttempts
    /\ invocations' = invocations + 1
    /\ rfails' = rfails + 1
    /\ \E code \in ErrorCodes, j \in Jitters :
          LET e == [code |-> code, id |-> invocations + 1] IN
          /\ lastError' = e
          /\ IF ~isRetryable(retryConfig, e) \/ isLastAttempt(retryConfig, attempt)
             THEN /\ rpc' = "threw"
                  /\ rresult' = [kind |-> "error", id |-> e.id]
                  /\ delays' = delays
             ELSE /\ rpc' = "delay"
                  /\ delays' = pause(delays, attempt, finalDelay(retryConfig, attempt, j))
                  /\ rresult' = rresult
    /\ UNCHANGED <<retryConfig, attempt>>

\* the pause is over: attempt++ and the loop condition; past the last attempt
\* the loop is left and lastError is thrown
RetryDelayElapsed ==
    /\ rpc = "delay"
    /\ attempt' = attempt + 1
    /\ IF attempt + 1 <= retryConfig.maxAttempts
       THEN /\ rpc' = "call"
            /\ rresult' = rresult
       ELSE /\ rpc' = "threw"
            /\ rresult' = [kind |-> "error", id |-> lastError.id]
    /\ UNCHANGED <<retryConfig, lastError, invocations, rfails, delays>>

(***************************************************************************)
(*        documentChunkAndEmbed, splitTextIntoChunks (document processor)  *)
(***************************************************************************)

DEFAULT_CHUNK_SIZE == 1000
DEFAULT_CHUNK_OVERLAP == 200
MIN_CHUNK_SIZE == 100
MAX_CHUNK_SIZE == 8000
searchRange == 100
dimensions == 384

\* the chunk list of the model is cut off at this length
MaxChunks == 5

(* A string is its length, the 0-based positions of its sentence enders      *)
(* ('.', '!', '?') and the positions of its whitespace characters; every     *)
(* other character is a letter.  These are the character classes the         *)
(* processor tells apart.                                                    *)
Str(len, enders, spaces) ==
    [kind |-> "string", len |-> len, enders |-> enders, spaces |-> spaces]
Undefined  == [kind |-> "undefined", len |-> 0, enders |-> {}, spaces |-> {}]
NotAString == [kind |-> "number", len |-> 0, enders |-> {}, spaces |-> {}]

\* "Hello world. This is a test."
HelloWorld == Str(28, {11, 27}, {5, 12, 17, 20, 22})

Contents ==
    { Undefined, NotAString,
      Str(0, {}, {}),                      \* ""
      Str(3, {}, {0, 1, 2}),               \* "   "
      HelloWorld,
      Str(100, {}, {}),
      Str(101, {}, {}),
      Str(150, {49}, {50}),
      Str(1000, {}, {}),
      Str(1200, {900}, {901}),
      Str(1200, {1050}, {1051}),
      Str(1200, {910, 1002}, {911, 1003}),
      Str(1200, {1100}, {1101}),
      Str(2500, {}, {}),
      Str(2500, {950, 1790}, {951, 1791}) }
ChunkSizes == {Null, 50, 100, 1000, 9000}
ChunkOverlaps == {Null, -100, 20, 200, 950, 1000}
DocumentIds == {"doc1", "undefined"}
MimeTypes == {"text/plain", "undefined"}

NoErr == [code |-> "none", mcp |-> FALSE]
\* createError(message, code, ...): an MCPError
createError(code) == [code |-> code, mcp |-> TRUE]
\* a TypeError raised by the runtime
TypeError == [code |-> "", mcp |-> FALSE]

\* validateInput(input, ['documentId', 'content', 'mimeType'])
missingFields(i) ==
    (IF i.documentId = "undefined" THEN {"documentId"} ELSE {})
    \cup (IF i.content.kind = "undefined" THEN {"content"} ELSE {})
    \cup (IF i.mimeType = "undefined" THEN {"mimeType"} ELSE {})

\* input.chunkSize || DEFAULT_CHUNK_SIZE
chunkSizeOf(i) == IF Truthy(i.chunkSize) THEN i.chunkSize ELSE DEFAULT_CHUNK_SIZE
\* input.chunkOverlap || DEFAULT_CHUNK_OVERLAP
chunkOverlapOf(i) == IF Truthy(i.chunkOverlap) THEN i.chunkOverlap ELSE DEFAULT_CHUNK_OVERLAP

\* text.trim().length === 0
isBlank(t) == Cardinality(t.spaces) = t.len

\* text.substring(a, b), 0 <= a <= b <= text.length
substring(t, a, b) ==
    Str(b - a, {i - a : i \in {x \in t.enders : a <= x /\ x < b}},
               {i - a : i \in {x \in t.spaces : a <= x /\ x < b}})

\* the checks of documentChunkAndEmbed and of the head of splitTextIntoChunks,
\* in the order the code makes them: the first error thrown, or NoErr
firstError(i) ==
    IF missingFields(i) # {} THEN createError("INVALID_INPUT")
    ELSE IF chunkSizeOf(i) < MIN_CHUNK_SIZE \/ chunkSizeOf(i) > MAX_CHUNK_SIZE
         THEN createError("INVALID_CHUNK_SIZE")
    ELSE IF chunkOverlapOf(i) >= chunkSizeOf(i) THEN createError("INVALID_CHUNK_OVERLAP")
    ELSE IF i.content.kind # "string" THEN TypeError
    ELSE IF isBlank(i.content) THEN createError("EMPTY_DOCUMENT")
    ELSE NoErr

rethrow_WrapAll(e) == createError("DOCUMENT_PROCESSING_ERROR")

\* the catch block of documentChunkAndEmbed
rethrow(e) == IF e.mcp THEN e ELSE createError("DOCUMENT_PROCESSING_ERROR")

isSentenceBoundary(t, index) ==
    /\ index >= 0 /\ index < t.len
    /\ index \in t.enders
    /\ (index = t.len - 1 \/ (index + 1) \in t.spaces)

findSentenceBoundary_ForwardFirst(t, index) ==
    LET startSearch == MaxOf(0, index - searchRange)
        endSearch == MinOf(t.len, index + searchRange)
        back == {i \in startSearch..index : isSentenceBoundary(t, i)}
        forw == {i \in index..(endSearch - 1) : isSentenceBoundary(t, i)}
    IN IF forw # {} THEN Min(forw) + 1
       ELSE IF back # {} THEN Max(back) + 1
       ELSE index

findSentenceBoundary(t, index) ==
    LET startSearch == MaxOf(0, index - searchRange)
        endSearch == MinOf(t.len, index + searchRange)
        back == {i \in startSearch..index : isSentenceBoundary(t, i)}
        forw == {i \in index..(endSearch - 1) : isSentenceBoundary(t, i)}
    IN IF back # {} THEN Max(back) + 1
       ELSE IF forw # {} THEN Min(forw) + 1
       ELSE index

\* the end index of the chunk that starts at s
chunkEnd(t, s, cs) ==
    LET endIndex == s + cs IN
    IF endIndex > t.len THEN t.len
    ELSE LET possibleBoundary == findSentenceBoundary(t, endIndex) IN
         IF possibleBoundary > s THEN possibleBoundary ELSE endIndex

newChunk(t, name, idx, s, e, total) ==
    [content |-> substring(t, s, e), index |-> idx, startOffset |-> s, endOffset |-> e,
     metadata |-> [documentName |-> name, chunkIndex |-> idx, totalChunks |-> total]]

singleChunk_WindowEnd(t, name, cs) == <<newChunk(t, name, 0, 0, cs, 1)>>

\* the single chunk case: text.length <= chunkSize
singleChunk(t, name, cs) == <<newChunk(t, name, 0, 0, t.len, 1)>>

backfill_Skip(cl) == cl

\* chunk.metadata.totalChunks = chunks.length, for every chunk
backfill(cl) == [k \in 1..Len(cl) |-> [cl[k] EXCEPT !.metadata.totalChunks = Len(cl)]]

\* documentChunkAndEmbed up to the chunking loop
DcaeStart ==
    /\ dpc = "start"
    /\ LET e == firstError(input) IN
       IF e # NoErr
       THEN /\ dpc' = "threw"
            /\ derr' = rethrow(e)
            /\ UNCHANGED <<chunks, startIndex, chunkIndex>>
       ELSE /\ derr' = derr
            /\ IF input.content.len <= chunkSizeOf(input)
               THEN /\ chunks' = singleChunk(input.content, input.documentId, chunkSizeOf(input))
                    /\ dpc' = "embedding"
                    /\ UNCHANGED <<startIndex, chunkIndex>>
               ELSE /\ chunks' = <<>>
                    /\ startIndex' = 0
                    /\ chunkIndex' = 0
                    /\ dpc' = "chunking"
    /\ UNCHANGED <<input, output>>

\* one iteration of the while loop of splitTextIntoChunks; when the loop is
\* left, the total count is written into every chunk
ChunkLoopIter ==
    /\ dpc = "chunking"
    /\ startIndex < input.content.len
    /\ Len(chunks) < MaxChunks
    /\ LET t == input.content
           endIndex == chunkEnd(t, startIndex, chunkSizeOf(input))
           keep == ~isBlank(substring(t, startIndex, endIndex))
           pushed == IF keep
                     THEN Append(chunks, newChunk(t, input.documentId, chunkIndex,
                                                  startIndex, endIndex, -1))
                     ELSE chunks
           nextStart == endIndex - chunkOverlapOf(input)
       IN /\ chunkIndex' = IF keep THEN chunkIndex + 1 ELSE chunkIndex
          /\ startIndex' = nextStart
          /\ IF nextStart >= t.len \/ nextStart <= 0
             THEN /\ chunks' = backfill(pushed)
                  /\ dpc' = "embedding"
             ELSE /\ chunks' = pushed
                  /\ dpc' = "chunking"
    /\ UNCHANGED <<input, derr, output>>

\* generateEmbeddings and the result of documentChunkAndEmbed
GenerateEmbeddings ==
    /\ dpc = "embedding"
    /\ output' = [documentId |-> input.documentId,
                  chunks |-> [k \in 1..Len(chunks) |->
                                 [chunk |-> chunks[k], id |-> <<input.documentId, k - 1>>,
                                  documentId |-> input.documentId]],
                  totalChunks |-> Len(chunks),
                  dimensions |-> IF Len(chunks) > 0 THEN dimensions ELSE 0]
    /\ dpc' = "returned"
    /\ UNCHANGED <<input, startIndex, chunkIndex, chunks, derr>>

NoInput == [documentId |-> "undefined", mimeType |-> "undefined", content |-> Undefined,
            chunkSize |-> Null, chunkOverlap |-> Null]
NoOutput == [documentId |-> "undefined", chunks |-> <<>>, totalChunks |-> 0, dimensions |-> 0]

(***************************************************************************)
(*      Vector index adapter: upsertVectors, deleteVectors (vector.ts)     *)
(***************************************************************************)

\* bound on the number of adapter calls in one behaviour
MaxIndexCalls == 2

IndexDocs == {"doc1", "doc2"}
ChunkIndexes == {0, 1, 19, 28}
\* char.charCodeAt(0) of the characters of each document id
CharCodes == [doc1 |-> <<100, 111, 99, 49>>, doc2 |-> <<100, 111, 99, 50>>]
Payloads == [document_id : IndexDocs, chunk_index : 0..1]
\* chunks 19 and 28 of a document of 29 chunks or more
LateChunks == <<[document_id |-> "doc1", chunk_index |-> 19], [document_id |-> "doc1", chunk_index |-> 28]>>
\* the payload lists upsertVectors is called with
Batches ==
    {<<>>} \cup {<<p>> : p \in Payloads} \cup {<<p, q>> : p, q \in Payloads} \cup {LateChunks}

RECURSIVE SumSeq(_)
SumSeq(s) == IF s = <<>> THEN 0 ELSE Head(s) + SumSeq(Tail(s))

\* the character codes of the decimal form of n
RECURSIVE digitCodes(_)
digitCodes(n) == IF n < 10 THEN <<48 + n>>
                 ELSE Append(digitCodes(n \div 10), 48 + (n % 10))

\* `${document_id}_${chunk_index || 0}` as character codes
idStr(d, ci) == CharCodes[d] \o <<95>> \o digitCodes(IF Truthy(ci) THEN ci ELSE 0)

\* Math.abs(Array.from(idStr).reduce((acc, char) => acc + char.charCodeAt(0), 0))
pointId(d, ci) == LET s == SumSeq(idStr(d, ci)) IN IF s < 0 THEN -s ELSE s

\* the points of one upsertVectors call; the vector and the content of a
\* point are identified by the call and the position they came with
makePoints(payloads, call) ==
    [k \in 1..Len(payloads) |->
        [id |-> pointId(payloads[k].document_id, payloads[k].chunk_index),
         vector |-> [call |-> call, pos |-> k],
         payload |-> [document_id |-> payloads[k].document_id,
                      chunk_index |-> IF Truthy(payloads[k].chunk_index)
                                      THEN payloads[k].chunk_index ELSE 0,
                      content |-> [call |-> call, pos |-> k]]]]

EmptyIndex == [i \in {} |-> 0]
NoTag == [call |-> 0, pos |-> 0]
NoValue == [kind |-> "none"]

\* qdrantClient.upsert(COLLECTION_NAME, {wait: true, points: [point]})
qdrantUpsert(idx, p) ==
    [i \in DOMAIN idx \cup {p.id} |->
        IF i = p.id THEN [vector |-> p.vector, payload |-> p.payload] ELSE idx[i]]

\* qdrantClient.retrieve(COLLECTION_NAME, {ids: [id]})
qdrantRetrieve(idx, id) == IF id \in DOMAIN idx THEN <<idx[id]>> ELSE <<>>

\* qdrantClient.delete(COLLECTION_NAME, {filter: document_id = d, wait: true})
qdrantDelete(idx, d) ==
    [i \in {j \in DOMAIN idx : idx[j].payload.document_id # d} |-> idx[i]]

\* createError(..., 'VECTOR_DB_ERROR', 500, {originalError: message})
vectorDbError(message) ==
    [kind |-> "error", code |-> "VECTOR_DB_ERROR", mcp |-> TRUE, originalError |-> message]

verified_Always(r) == TRUE

\* retrieved.length > 0
verified(r) == Len(r) > 0

\* response.status === 'completed' ? 1 : 0
deleteResult(status) == IF status = "completed" THEN 1 ELSE 0

\* no adapter call is in progress
AdapterFree == upc \in {"idle", "returned", "threw"}

\* upsertVectors from its entry to the loop over the points: vectors[0] of an
\* empty list is undefined, a missing collection and a failing getCollections
\* throw, and every error is wrapped by the outer catch
beginUpsert(payloads, found) ==
    LET failure == IF Len(payloads) = 0 THEN "Cannot read properties of undefined"
                   ELSE IF found = "error" THEN "getCollections failed"
                   ELSE IF found = "missing" THEN "Collection document_chunks does not exist"
                   ELSE "" IN
    /\ ncalls' = ncalls + 1
    /\ tries' = 0
    /\ pointPauses' = <<>>
    /\ retrieved' = <<>>
    /\ cause' = ""
    /\ IF failure # ""
       THEN /\ upc' = "threw"
            /\ uresult' = vectorDbError(failure)
            /\ UNCHANGED <<points, cursor, retries>>
       ELSE /\ upc' = "write"
            /\ points' = makePoints(payloads, ncalls + 1)
            /\ cursor' = 1
            /\ retries' = 3
            /\ uresult' = NoValue

\* a call of upsertVectors(vectors, payloads)
UpsertVectors(payloads, found) ==
    /\ AdapterFree
    /\ ncalls < MaxIndexCalls
    /\ op' = "upsert"
    /\ beginUpsert(payloads, found)
    /\ UNCHANGED <<collection, latest, removed, curDoc, curN, oldN, prevN>>

\* the catch block of the retry loop
catchAttempt(message) ==
    /\ retries' = retries - 1
    /\ cause' = message
    /\ IF retries - 1 = 0
       THEN /\ upc' = "threw"
            /\ uresult' = vectorDbError(message)
       ELSE /\ upc' = "pause"
            /\ uresult' = uresult

\* one attempt to write the current point: qdrantClient.upsert resolves or rejects
UpsertPoint(ok) ==
    /\ upc = "write"
    /\ tries' = tries + 1
    /\ IF ok
       THEN /\ collection' = qdrantUpsert(collection, points[cursor])
            /\ latest' = [latest EXCEPT ![<<points[cursor].payload.document_id,
                                            points[cursor].payload.chunk_index>>]
                                           = points[cursor].vector]
            /\ upc' = "verify"
            /\ UNCHANGED <<retries, cause, uresult>>
       ELSE /\ catchAttempt("upsert failed")
            /\ UNCHANGED <<collection, latest>>
    /\ UNCHANGED <<op, points, cursor, pointPauses, retrieved, ncalls, removed,
                   curDoc, curN, oldN, prevN>>

\* the read-back of the current point: qdrantClient.retrieve returns what the
\* collection holds, returns nothing, or rejects
RetrievePoint(r) ==
    /\ upc = "verify"
    /\ LET got == IF r = "ok" THEN qdrantRetrieve(collection, points[cursor].id) ELSE <<>> IN
       /\ retrieved' = got
       /\ IF r # "error" /\ verified(got)
          THEN /\ cause' = cause
               /\ IF cursor = Len(points)
                  THEN /\ upc' = "returned"
                       /\ retries' = retries
                       /\ uresult' = [kind |-> "value", value |-> Len(points)]
                       /\ prevN' = IF op = "ingest" THEN [prevN EXCEPT ![curDoc] = curN]
                                   ELSE prevN
                       /\ UNCHANGED <<cursor, tries, pointPauses>>
                  ELSE /\ cursor' = cursor + 1
                       /\ retries' = 3
                       /\ tries' = 0
                       /\ pointPauses' = <<>>
                       /\ upc' = "write"
                       /\ UNCHANGED <<uresult, prevN>>
          ELSE /\ catchAttempt(IF r = "error" THEN "retrieve failed"
                               ELSE "Point verification failed")
               /\ UNCHANGED <<cursor, tries, pointPauses, prevN>>
    /\ UNCHANGED <<collection, op, points, latest, ncalls, removed, curDoc, curN, oldN>>

\* await new Promise(resolve => setTimeout(resolve, 1000))
PauseElapsed ==
    /\ upc = "pause"
    /\ pointPauses' = Append(pointPauses, 1000)
    /\ upc' = "write"
    /\ UNCHANGED <<collection, op, points, cursor, retries, uresult, tries, cause, retrieved,
                   latest, ncalls, removed, curDoc, curN, oldN, prevN>>

\* the pairs (documentId, chunkIndex) of document d
pairsOf(d) == {<<d, ci>> : ci \in ChunkIndexes}

\* a call of deleteVectors(documentId): qdrantClient.delete completes or rejects
DeleteVectors(d, ok) ==
    /\ AdapterFree
    /\ ncalls < MaxIndexCalls
    /\ ncalls' = ncalls + 1
    /\ op' = "delete"
    /\ IF ok
       THEN /\ collection' = qdrantDelete(collection, d)
            /\ removed' = Cardinality(DOMAIN collection) - Cardinality(DOMAIN qdrantDelete(collection, d))
            /\ latest' = [pr \in DOMAIN latest |-> IF pr \in pairsOf(d) THEN NoTag ELSE latest[pr]]
            /\ upc' = "returned"
            /\ uresult' = [kind |-> "value", value |-> deleteResult("completed")]
       ELSE /\ upc' = "threw"
            /\ uresult' = vectorDbError("delete failed")
            /\ UNCHANGED <<collection, removed, latest>>
    /\ UNCHANGED <<points, cursor, retries, tries, pointPauses, cause, retrieved,
                   curDoc, curN, oldN, prevN>>

\* the chunks of a new version of document d, n of them, are stored: the
\* payloads of chunks 0..n-1 of documentChunkAndEmbed go to upsertVectors
Ingest(d, n, found) ==
    /\ AdapterFree
    /\ ncalls < MaxIndexCalls
    /\ op' = "ingest"
    /\ curDoc' = d
    /\ curN' = n
    /\ oldN' = prevN[d]
    /\ beginUpsert([k \in 1..n |-> [document_id |-> d, chunk_index |-> k - 1]], found)
    /\ UNCHANGED <<collection, latest, removed, prevN>>

(***************************************************************************)
(*   Question answering: documentQAQuery, vectorSimilaritySearch,          *)
(*   searchSimilar, generateEmbedding, generateAnswer, the chat route      *)
(***************************************************************************)

\* bound on the number of hits the search returns
MaxHits == 3

DEFAULT_MAX_RESULTS == 5
MAX_CONTEXT_LENGTH == 4000
\* '\n\n---\n\n'.length and '...'.length
separatorLength == 7
markerLength == 3
\* the threshold 0.7 documentQAQuery passes, and the scores, in hundredths
qaThreshold == 70
Scores == {20, 70, 95}
\* content lengths of the stored chunks; 0 is the empty string
ContentLens == {0, 100, 3885, 3996}

\* the query of the input: missing, null, a number, or a string given by its
\* character codes ("", "hi", "ih", "cat")
QUndefined == [kind |-> "undefined", codes |-> <<>>]
QNull == [kind |-> "null", codes |-> <<>>]
QNumber == [kind |-> "number", codes |-> <<>>]
QString(codes) == [kind |-> "string", codes |-> codes]
Queries == {QUndefined, QNull, QNumber, QString(<<>>), QString(<<104, 105>>),
            QString(<<105, 104>>), QString(<<99, 97, 116>>)}
\* 'unknown query'
unknownQuery == <<117, 110, 107, 110, 111, 119, 110, 32, 113, 117, 101, 114, 121>>

\* a hit of qdrantClient.search: its score and the length of its content
SearchHit == [score : Scores, content : ContentLens]
\* what qdrantClient.search can return: hits by descending score
HitLists ==
    {h \in UNION {[1..n -> SearchHit] : n \in 0..MaxHits} :
        \A k \in 1..(Len(h) - 1) : h[k].score >= h[k + 1].score}

NoQInput == [query |-> QUndefined, maxResults |-> Null]
NoContext == [len |-> 0, marker |-> FALSE, parts |-> <<>>]
NoQError == [code |-> "none", mcp |-> FALSE, message |-> "", originalError |-> ""]
NoAnswer == [kind |-> "none"]
NoQOutput == [answer |-> NoAnswer, sources |-> <<>>]
NoResponse == [success |-> FALSE, code |-> "none"]

\* createError(message, code, 500, {originalError})
mcpError(code, message, originalError) ==
    [code |-> code, mcp |-> TRUE, message |-> message, originalError |-> originalError]
\* an Error or TypeError that is not an MCPError
jsError(message) == [code |-> "", mcp |-> FALSE, message |-> message, originalError |-> ""]

\* the catch block of vectorSimilaritySearch
vsRethrow(e) ==
    IF e.mcp THEN e
    ELSE mcpError("VECTOR_SEARCH_ERROR", "Failed to perform vector search", e.message)

qaRethrow_WrapAll(e) ==
    mcpError("DOCUMENT_QA_ERROR", "Failed to perform document Q&A", e.message)

\* the catch block of documentQAQuery
qaRethrow(e) ==
    IF e.mcp THEN e
    ELSE mcpError("DOCUMENT_QA_ERROR", "Failed to perform document Q&A", e.message)

\* input.maxResults || DEFAULT_MAX_RESULTS
maxResultsOf(i) == IF Truthy(i.maxResults) THEN i.maxResults ELSE DEFAULT_MAX_RESULTS

\* the results vectorSimilaritySearch builds from the hits of searchSimilar:
\* every hit is converted, the threshold is not applied
searchOutput(hits, threshold) ==
    [k \in 1..Len(hits) |->
        [score |-> hits[k].score, content |-> hits[k].content,
         metadata |-> [documentId |-> "doc1"]]]

\* the sources documentQAQuery returns
sourcesOf(rs) ==
    [k \in 1..Len(rs) |->
        [documentId |-> rs[k].metadata.documentId, content |-> rs[k].content,
         score |-> rs[k].score]]

\* `[${i + 1}] `.length, for the chunk at position n = i + 1
prefixLength(n) == 3 + Len(digitCodes(n))

exceeds_OrEqual(n) == n >= MAX_CONTEXT_LENGTH

\* context.length > MAX_CONTEXT_LENGTH
exceeds(n) == n > MAX_CONTEXT_LENGTH

\* the loop of prepareContext from position n on; a context is its length
\* before the marker, whether the marker was appended, and the positions of
\* the chunks appended to it
RECURSIVE prepareContextFrom(_, _, _)
prepareContextFrom(chunkList, n, ctx) ==
    IF n > Len(chunkList) THEN ctx
    ELSE IF chunkList[n] = 0 THEN prepareContextFrom(chunkList, n + 1, ctx)
    ELSE LET separated == IF ctx.len > 0 THEN ctx.len + separatorLength
                          ELSE ctx.len
             appended == separated + prefixLength(n) + chunkList[n]
         IN IF exceeds(appended)
            THEN [len |-> MAX_CONTEXT_LENGTH, marker |-> TRUE,
                  parts |-> Append(ctx.parts, n)]
            ELSE prepareContextFrom(chunkList, n + 1,
                                    [len |-> appended, marker |-> FALSE,
                                     parts |-> Append(ctx.parts, n)])

prepareContext(chunkList) == prepareContextFrom(chunkList, 1, NoContext)

cannedAnswer_First(q) ==
    [kind |-> "canned", index |-> 0,
     query |-> IF q.codes = <<>> THEN unknownQuery ELSE q.codes]

\* const seed = safeQuery.split('').reduce(...); seed % answers.length
cannedAnswer(q) ==
    LET safeQuery == IF q.codes = <<>> THEN unknownQuery ELSE q.codes
    IN [kind |-> "canned", index |-> SumSeq(safeQuery) % 4, query |-> safeQuery]

\* documentQAQuery and vectorSimilaritySearch up to generateEmbedding:
\* validateInput(input, ['query']) rejects a missing query only
QaStart ==
    /\ qpc = "start"
    /\ IF qinput.query.kind = "undefined"
       THEN /\ qpc' = "threw"
            /\ qerror' = qaRethrow(mcpError("INVALID_INPUT", "Missing required fields: query", ""))
            /\ failedStep' = "validation"
       ELSE /\ qpc' = "embed"
            /\ UNCHANGED <<qerror, failedStep>>
    /\ UNCHANGED <<qinput, via, embedding, searchResults, results, context, answer, qoutput,
                   response, provider>>

\* generateEmbedding(input.query) of services/ai: the provider's vector, or the
\* mock vector when there is no model or the provider fails; building the mock
\* vector of a null query throws a TypeError
GenerateEmbedding(how) ==
    /\ qpc = "embed"
    /\ IF qinput.query.kind = "null"
       THEN /\ qpc' = "threw"
            /\ qerror' = qaRethrow(vsRethrow(jsError("null is not iterable")))
            /\ failedStep' = "embedding"
            /\ embedding' = embedding
       ELSE /\ embedding' = IF how = "ok" /\ qinput.query.kind = "string"
                            THEN "provider" ELSE "mock"
            /\ qpc' = "search"
            /\ UNCHANGED <<qerror, failedStep>>
    /\ UNCHANGED <<qinput, via, searchResults, results, context, answer, qoutput, response,
                   provider>>

\* searchSimilar rejects: its catch throws VECTOR_DB_ERROR, which passes the
\* catch blocks of vectorSimilaritySearch and of documentQAQuery
SearchFails ==
    /\ qpc = "search"
    /\ qpc' = "threw"
    /\ qerror' = qaRethrow(vsRethrow(mcpError("VECTOR_DB_ERROR",
                                              "Failed to search vector database",
                                              "search failed")))
    /\ failedStep' = "search"
    /\ UNCHANGED <<qinput, via, embedding, searchResults, results, context, answer, qoutput,
                   response, provider>>

\* searchSimilar returns at most limit hits; vectorSimilaritySearch converts
\* them and documentQAQuery prepares the context from their contents
SearchReturns(hits) ==
    /\ qpc = "search"
    /\ Len(hits) <= maxResultsOf(qinput)
    /\ searchResults' = hits
    /\ results' = searchOutput(hits, qaThreshold)
    /\ context' = prepareContext([k \in 1..Len(hits) |-> searchOutput(hits, qaThreshold)[k].content])
    /\ qpc' = "generate"
    /\ UNCHANGED <<qinput, via, embedding, answer, qoutput, qerror, response, failedStep, provider>>

\* mockLLMGeneration: generateAnswer returns the provider's text, or the mock
\* response of generateCompletion when there is no model; when the provider
\* fails the catch block picks a canned answer, which throws a TypeError for a
\* query that has no split method
Generate(how) ==
    /\ qpc = "generate"
    /\ provider' = how
    /\ IF how = "failed" /\ qinput.query.kind = "number"
       THEN /\ qpc' = "threw"
            /\ qerror' = qaRethrow(jsError("safeQuery.split is not a function"))
            /\ failedStep' = "generation"
            /\ UNCHANGED <<answer, qoutput>>
       ELSE /\ answer' = IF how = "ok" THEN [kind |-> "generated"]
                         ELSE IF how = "absent" THEN [kind |-> "mock"]
                         ELSE cannedAnswer(qinput.query)
            /\ qoutput' = [answer |-> answer', sources |-> sourcesOf(results)]
            /\ qpc' = "returned"
            /\ UNCHANGED <<qerror, failedStep>>
    /\ UNCHANGED <<qinput, via, embedding, searchResults, results, context, response>>

\* POST /api/chat/query up to the call of the document_qa_query tool: a falsy
\* query is answered with 400 MISSING_QUERY
ChatQuery ==
    /\ qpc = "route"
    /\ IF qinput.query.kind \in {"undefined", "null"} \/ qinput.query = QString(<<>>)
       THEN /\ response' = [success |-> FALSE, code |-> "MISSING_QUERY"]
            /\ qpc' = "responded"
       ELSE /\ response' = response
            /\ qpc' = "start"
    /\ UNCHANGED <<qinput, via, embedding, searchResults, results, context, answer, qoutput,
                   qerror, failedStep, provider>>

\* the response of POST /api/chat/query after the tool call
ChatRespond ==
    /\ via = "chat"
    /\ qpc \in {"returned", "threw"}
    /\ response' = IF qpc = "returned"
                   THEN [success |-> TRUE, code |-> "", answer |-> qoutput.answer,
                         sources |-> qoutput.sources,
                         confidence |-> IF Len(qoutput.sources) > 0 THEN "high" ELSE "low"]
                   ELSE [success |-> FALSE, code |-> "CHAT_QUERY_ERROR"]
    /\ qpc' = "responded"
    /\ UNCHANGED <<qinput, via, embedding, searchResults, results, context, answer, qoutput,
                   qerror, failedStep, provider>>

(***************************************************************************)
(*        googleDriveListFiles: circuit breaker, withRetry and the         *)
(*        classification of the provider's errors (google-drive.ts)        *)
(***************************************************************************)

\* bound on the number of googleDriveListFiles calls
MaxDriveCalls == 7

\* what drive.files.list rejects with: the HTTP status of the response (Null
\* when there is no response) and the code property the client library sets
\* on its error (the status as text, or the system error code)
RawErrors ==
    {[status |-> 401, code |-> "401"], [status |-> 403, code |-> "403"],
     [status |-> 404, code |-> "404"], [status |-> 429, code |-> "429"],
     [status |-> 500, code |-> "500"], [status |-> Null, code |-> "ECONNRESET"]}

NoRaw == [status |-> Null, code |-> "none"]
NoDriveResult == [kind |-> "none", code |-> "none"]

driveError(code) == [kind |-> "error", code |-> code]

\* (error as any)?.response?.status || 500
statusCodeOf(e) == IF Truthy(e.status) THEN e.status ELSE 500

\* the catch block of googleDriveListFiles, for an error that is not an MCPError
classify(e) ==
    IF statusCodeOf(e) = 401 \/ statusCodeOf(e) = 403
    THEN driveError("AUTHENTICATION_FAILED")
    ELSE IF statusCodeOf(e) = 429
         THEN driveError("RATE_LIMITED")
         ELSE driveError("GOOGLE_DRIVE_ERROR")

setCredentials ==
    /\ gpc \in {"idle", "returned", "threw"}
    /\ ~authed
    /\ authed' = TRUE
    /\ UNCHANGED <<driveBreaker, gnow, gpc, gattempt, listCalls, raw, gresult, driveCalls>>

\* googleDriveListFiles up to the first await: circuitBreaker.execute
\* (updateState, the open check), getDriveClient, withRetry entering its loop
googleDriveListFiles ==
    /\ gpc \in {"idle", "returned", "threw"}
    /\ driveCalls < MaxDriveCalls
    /\ driveCalls' = driveCalls + 1
    /\ listCalls' = 0
    /\ raw' = NoRaw
    /\ gattempt' = 1
    /\ LET s == updateState(driveBreaker, gnow) IN
       IF s.status = "open"
       THEN /\ driveBreaker' = s
            /\ gpc' = "threw"
            /\ gresult' = driveError("CIRCUIT_OPEN")
       ELSE IF ~authed
            THEN /\ driveBreaker' = onFailure(s, defaultCircuitBreakerConfig, gnow)
                 /\ gpc' = "threw"
                 /\ gresult' = driveError("AUTHENTICATION_REQUIRED")
            ELSE /\ driveBreaker' = s
                 /\ gpc' = "call"
                 /\ gresult' = NoDriveResult
    /\ UNCHANGED <<authed, gnow>>

\* drive.files.list resolved: withRetry returns, the breaker records the
\* success, the tool returns the supported files
ListResolves ==
    /\ gpc = "call"
    /\ listCalls' = listCalls + 1
    /\ driveBreaker' = onSuccess(driveBreaker)
    /\ gpc' = "returned"
    /\ gresult' = [kind |-> "value", code |-> "none"]
    /\ UNCHANGED <<authed, gnow, gattempt, raw, driveCalls>>

\* drive.files.list rejected: the catch block of withRetry with the default
\* policy (the pause included when it retries), then the breaker's onFailure
\* and the catch block of googleDriveListFiles
ListRejects(e) ==
    /\ gpc = "call"
    /\ listCalls' = listCalls + 1
    /\ raw' = e
    /\ IF ~isRetryable(defaultRetryConfig, e) \/ isLastAttempt(defaultRetryConfig, gattempt)
       THEN /\ driveBreaker' = onFailure(driveBreaker, defaultCircuitBreakerConfig, gnow)
            /\ gpc' = "threw"
            /\ gresult' = classify(e)
            /\ gattempt' = gattempt
       ELSE /\ gattempt' = gattempt + 1
            /\ UNCHANGED <<driveBreaker, gpc, gresult>>
    /\ UNCHANGED <<authed, gnow, driveCalls>>

\* the clock advances
DriveTick ==
    /\ \E d \in TickSteps :
          /\ gnow + d <= MaxNow
          /\ gnow' = gnow + d
    /\ UNCHANGED <<driveBreaker, authed, gpc, gattempt, listCalls, raw, gresult, driveCalls>>

(***************************************************************************)
(*   Index lifecycle: initializeCollection at module load (vector.ts),     *)
(*   resetKnowledgeBase, and the adapter calls that run beside them        *)
(***************************************************************************)

\* bound on the number of resetKnowledgeBase calls
MaxResets == 1

VECTOR_SIZE == 10
COLLECTION_CONFIG == [size |-> VECTOR_SIZE, distance |-> "Cosine"]
\* the configuration resetKnowledgeBase recreates the collection with
resetConfig == [size |-> 1536, distance |-> "Cosine"]
\* no collection of that name exists
NoSchema == [size |-> Null, distance |-> "none"]

\* the length of the vector generateEmbedding returns: the provider's
\* text-embedding-3-small, or the mock embedding when there is no provider or
\* the provider failed
EmbeddingSources == {"ok", "absent", "failed"}
embeddingLength(how) == 1536

\* the batches stored while the collection is set up
LifecycleBatches ==
    {<<[document_id |-> "doc1", chunk_index |-> 0]>>,
     <<[document_id |-> "doc1", chunk_index |-> 0], [document_id |-> "doc1", chunk_index |-> 1]>>}

idsOf(ps) == {ps[k].id : k \in 1..Len(ps)}

\* qdrantClient.getCollections() as upsertVectors sees it
collectionFound == IF schema = NoSchema THEN "missing" ELSE "exists"

\* initializeCollection: qdrantClient.deleteCollection settled; a rejection is
\* caught and logged, and createCollection is requested in both cases
DeleteCollectionSettles(ok) ==
    /\ ipc = "delete"
    /\ ipc' = "create"
    /\ IF ok
       THEN /\ schema' = NoSchema
            /\ collection' = EmptyIndex
            /\ latest' = [pr \in DOMAIN latest |-> NoTag]
       ELSE UNCHANGED <<schema, collection, latest>>
    /\ UNCHANGED <<kpc, kresult, committed, resets>>
    /\ UNCHANGED <<upc, op, points, cursor, retries, uresult, tries, pointPauses, cause,
                   retrieved, ncalls, removed, curDoc, curN, oldN, prevN>>

\* initializeCollection: qdrantClient.createCollection settled; it can only
\* succeed when no collection of that name exists, and a rejection is rethrown
\* as VECTOR_DB_ERROR into the .catch(console.error) of the module
CreateCollectionSettles(ok) ==
    /\ ipc = "create"
    /\ ok => schema = NoSchema
    /\ IF ok
       THEN /\ schema' = COLLECTION_CONFIG
            /\ ipc' = "done"
       ELSE /\ schema' = schema
            /\ ipc' = "failed"
    /\ UNCHANGED <<kpc, kresult, committed, resets>>
    /\ UNCHANGED indexVars

\* resetKnowledgeBase is called: the statistics are read, deleteCollection is requested
resetKnowledgeBase ==
    /\ kpc \in {"idle", "returned", "threw"}
    /\ AdapterFree
    /\ resets < MaxResets
    /\ resets' = resets + 1
    /\ kpc' = "delete"
    /\ kresult' = "none"
    /\ committed' = {}
    /\ UNCHANGED <<schema, ipc>>
    /\ UNCHANGED indexVars

\* resetKnowledgeBase: deleteCollection settled; a rejection is caught and logged
ResetDeleteSettles(ok) ==
    /\ kpc = "delete"
    /\ kpc' = "create"
    /\ IF ok
       THEN /\ schema' = NoSchema
            /\ collection' = EmptyIndex
            /\ latest' = [pr \in DOMAIN latest |-> NoTag]
       ELSE UNCHANGED <<schema, collection, latest>>
    /\ UNCHANGED <<ipc, kresult, committed, resets>>
    /\ UNCHANGED <<upc, op, points, cursor, retries, uresult, tries, pointPauses, cause,
                   retrieved, ncalls, removed, curDoc, curN, oldN, prevN>>

\* resetKnowledgeBase: createCollection settled
ResetCreateSettles(ok) ==
    /\ kpc = "create"
    /\ ok => schema = NoSchema
    /\ IF ok
       THEN /\ schema' = resetConfig
            /\ kpc' = "returned"
            /\ kresult' = "success"
       ELSE /\ schema' = schema
            /\ kpc' = "threw"
            /\ kresult' = "KNOWLEDGE_BASE_RESET_ERROR"
    /\ UNCHANGED <<ipc, committed, resets>>
    /\ UNCHANGED indexVars

\* upsertVectors is called while the module may still be setting the collection up
StoreVectors(payloads, failed) ==
    /\ kpc \in {"idle", "returned", "threw"}
    /\ UpsertVectors(payloads, IF failed THEN "error" ELSE collectionFound)
    /\ UNCHANGED <<schema, ipc, kpc, kresult, committed, resets>>

\* qdrantClient.upsert can only resolve while the collection exists
WritePoint(ok) ==
    /\ ok => schema # NoSchema
    /\ UpsertPoint(ok)
    /\ UNCHANGED <<schema, ipc, kpc, kresult, committed, resets>>

\* the read-back; when it ends a successful upsertVectors, the points of the
\* call are recorded as written
ReadBack(r) ==
    /\ RetrievePoint(r)
    /\ committed' = IF upc' = "returned" THEN committed \cup idsOf(points) ELSE committed
    /\ UNCHANGED <<schema, ipc, kpc, kresult, resets>>

PauseBeforeRetry ==
    /\ PauseElapsed
    /\ UNCHANGED <<schema, ipc, kpc, kresult, committed, resets>>

\* deleteVectors(documentId) is called; what it removes is no longer expected
RemoveVectors(d, ok) ==
    /\ kpc \in {"idle", "returned", "threw"}
    /\ ok => schema # NoSchema
    /\ DeleteVectors(d, ok)
    /\ committed' = committed \cap DOMAIN collection'
    /\ UNCHANGED <<schema, ipc, kpc, kresult, resets>>

(***************************************************************************)
(*   L2 normalization: upsertVectors (vector.ts) and mockGenerateEmbedding *)
(***************************************************************************)

\* the length of the vectors normalized
MaxDim == 3

\* a number is NaN or a fixed-point value in thousandths
Scale == 1000
Num(x) == [nan |-> FALSE, val |-> x]
NaN == [nan |-> TRUE, val |-> 0]

\* the components of the vectors, and the vectors whose magnitude is an
\* integer, so that every quotient below is exact in thousandths
Components == {-4, -3, 0, 3, 4}

RECURSIVE sumOfSquares(_)
\* vector.reduce((sum, val) => sum + val * val, 0)
sumOfSquares(v) == IF v = <<>> THEN 0 ELSE Head(v) * Head(v) + sumOfSquares(Tail(v))

isSquare(n) == \E r \in 0..n : r * r = n
\* Math.sqrt
sqrt(n) == CHOOSE r \in 0..n : r * r = n

RawVectors == {v \in [1..MaxDim -> Components] : isSquare(sumOfSquares(v))}

\* val / magnitude: 0 / 0 is NaN (the magnitude is 0 only when every val is 0)
quotient(val, magnitude) ==
    IF magnitude = 0 THEN NaN ELSE Num((val * Scale) \div magnitude)

\* upsertVectors: vectors.map(vector => vector.map(val => val / magnitude))
normalizedVector(v) ==
    LET magnitude == sqrt(sumOfSquares(v)) IN
    [k \in DOMAIN v |-> quotient(v[k], magnitude)]

\* mockGenerateEmbedding: the zero vector is returned as it is
mockNormalized(v) ==
    LET magnitude == sqrt(sumOfSquares(v)) IN
    IF magnitude = 0
    THEN [k \in DOMAIN v |-> Num(0)]
    ELSE [k \in DOMAIN v |-> quotient(v[k], magnitude)]

\* upsertVectors normalizes the vector and builds the point it writes
NormalizeForUpsert ==
    /\ npc = "raw"
    /\ npc' = "point"
    /\ nout' = normalizedVector(nvec)
    /\ UNCHANGED nvec

\* mockGenerateEmbedding normalizes the embedding and returns it
NormalizeMock ==
    /\ npc = "raw"
    /\ npc' = "embedding"
    /\ nout' = mockNormalized(nvec)
    /\ UNCHANGED nvec

(***************************************************************************)
(*                           Specifications                                *)
(***************************************************************************)

\* new CircuitBreaker(config); no withRetry call, no document in progress
BreakerInit ==
    /\ \E n \in Thresholds :
          config = [defaultCircuitBreakerConfig EXCEPT !.failureThreshold = n]
    /\ state = initialState
    /\ now \in StartTimes
    /\ pc = [c \in Callers |-> "idle"]
    /\ outcome = [c \in Callers |-> "none"]
    /\ calls = 0
    /\ failRun = 0
    /\ admittedFrom = [c \in Callers |-> "none"]
    /\ rejections = 0
    /\ retryConfig = defaultRetryConfig
    /\ attempt = 1
    /\ rpc = "idle"
    /\ lastError = NoError
    /\ invocations = 0
    /\ rfails = 0
    /\ delays = <<>>
    /\ rresult = NoResult
    /\ input = NoInput
    /\ dpc = "idle"
    /\ startIndex = 0
    /\ chunkIndex = 0
    /\ chunks = <<>>
    /\ derr = NoErr
    /\ output = NoOutput
    /\ collection = EmptyIndex
    /\ upc = "idle"
    /\ op = "none"
    /\ points = <<>>
    /\ cursor = 0
    /\ retries = 0
    /\ uresult = NoValue
    /\ tries = 0
    /\ pointPauses = <<>>
    /\ cause = ""
    /\ retrieved = <<>>
    /\ latest = [pr \in IndexDocs \X ChunkIndexes |-> NoTag]
    /\ ncalls = 0
    /\ removed = 0
    /\ curDoc = "none"
    /\ curN = 0
    /\ oldN = 0
    /\ prevN = [d \in IndexDocs |-> 0]
    /\ qinput = NoQInput
    /\ via = "none"
    /\ qpc = "idle"
    /\ embedding = "none"
    /\ searchResults = <<>>
    /\ results = <<>>
    /\ context = NoContext
    /\ answer = NoAnswer
    /\ qoutput = NoQOutput
    /\ qerror = NoQError
    /\ response = NoResponse
    /\ failedStep = "none"
    /\ provider = "none"
    /\ driveBreaker = initialState
    /\ authed = FALSE
    /\ gnow = 0
    /\ gpc = "idle"
    /\ gattempt = 1
    /\ listCalls = 0
    /\ raw = NoRaw
    /\ gresult = NoDriveResult
    /\ driveCalls = 0
    /\ schema = COLLECTION_CONFIG
    /\ ipc = "done"
    /\ kpc = "idle"
    /\ kresult = "none"
    /\ committed = {}
    /\ resets = 0
    /\ nvec = <<>>
    /\ npc = "idle"
    /\ nout = <<>>

\* withRetry(fn, config) with the default policy, maxAttempts overridden
RetryInit ==
    /\ \E m \in 1..MaxAttemptsBound :
          retryConfig = [defaultRetryConfig EXCEPT !.maxAttempts = m]
    /\ attempt = 1
    /\ rpc = "call"
    /\ lastError = NoError
    /\ invocations = 0
    /\ rfails = 0
    /\ delays = <<>>
    /\ rresult = NoResult
    /\ config = defaultCircuitBreakerConfig
    /\ state = initialState
    /\ now = 0
    /\ pc = [c \in Callers |-> "idle"]
    /\ outcome = [c \in Callers |-> "none"]
    /\ calls = 0
    /\ failRun = 0
    /\ admittedFrom = [c \in Callers |-> "none"]
    /\ rejections = 0
    /\ input = NoInput
    /\ dpc = "idle"
    /\ startIndex = 0
    /\ chunkIndex = 0
    /\ chunks = <<>>
    /\ derr = NoErr
    /\ output = NoOutput
    /\ collection = EmptyIndex
    /\ upc = "idle"
    /\ op = "none"
    /\ points = <<>>
    /\ cursor = 0
    /\ retries = 0
    /\ uresult = NoValue
    /\ tries = 0
    /\ pointPauses = <<>>
    /\ cause = ""
    /\ retrieved = <<>>
    /\ latest = [pr \in IndexDocs \X ChunkIndexes |-> NoTag]
    /\ ncalls = 0
    /\ removed = 0
    /\ curDoc = "none"
    /\ curN = 0
    /\ oldN = 0
    /\ prevN = [d \in IndexDocs |-> 0]
    /\ qinput = NoQInput
    /\ via = "none"
    /\ qpc = "idle"
    /\ embedding = "none"
    /\ searchResults = <<>>
    /\ results = <<>>
    /\ context = NoContext
    /\ answer = NoAnswer
    /\ qoutput = NoQOutput
    /\ qerror = NoQError
    /\ response = NoResponse
    /\ failedStep = "none"
    /\ provider = "none"
    /\ driveBreaker = initialState
    /\ authed = FALSE
    /\ gnow = 0
    /\ gpc = "idle"
    /\ gattempt = 1
    /\ listCalls = 0
    /\ raw = NoRaw
    /\ gresult = NoDriveResult
    /\ driveCalls = 0
    /\ schema = COLLECTION_CONFIG
    /\ ipc = "done"
    /\ kpc = "idle"
    /\ kresult = "none"
    /\ committed = {}
    /\ resets = 0
    /\ nvec = <<>>
    /\ npc = "idle"
    /\ nout = <<>>

\* a call of documentChunkAndEmbed(input)
ChunkInit ==
    /\ input \in [documentId : DocumentIds, mimeType : MimeTypes, content : Contents,
                  chunkSize : ChunkSizes, chunkOverlap : ChunkOverlaps]
    /\ dpc = "start"
    /\ startIndex = 0
    /\ chunkIndex = 0
    /\ chunks = <<>>
    /\ derr = NoErr
    /\ output = NoOutput
    /\ config = defaultCircuitBreakerConfig
    /\ state = initialState
    /\ now = 0
    /\ pc = [c \in Callers |-> "idle"]
    /\ outcome = [c \in Callers |-> "none"]
    /\ calls = 0
    /\ failRun = 0
    /\ admittedFrom = [c \in Callers |-> "none"]
    /\ rejections = 0
    /\ retryConfig = defaultRetryConfig
    /\ attempt = 1
    /\ rpc = "idle"
    /\ lastError = NoError
    /\ invocations = 0
    /\ rfails = 0
    /\ delays = <<>>
    /\ rresult = NoResult
    /\ collection = EmptyIndex
    /\ upc = "idle"
    /\ op = "none"
    /\ points = <<>>
    /\ cursor = 0
    /\ retries = 0
    /\ uresult = NoValue
    /\ tries = 0
    /\ pointPauses = <<>>
    /\ cause = ""
    /\ retrieved = <<>>
    /\ latest = [pr \in IndexDocs \X ChunkIndexes |-> NoTag]
    /\ ncalls = 0
    /\ removed = 0
    /\ curDoc = "none"
    /\ curN = 0
    /\ oldN = 0
    /\ prevN = [d \in IndexDocs |-> 0]
    /\ qinput = NoQInput
    /\ via = "none"
    /\ qpc = "idle"
    /\ embedding = "none"
    /\ searchResults = <<>>
    /\ results = <<>>
    /\ context = NoContext
    /\ answer = NoAnswer
    /\ qoutput = NoQOutput
    /\ qerror = NoQError
    /\ response = NoResponse
    /\ failedStep = "none"
    /\ provider = "none"
    /\ driveBreaker = initialState
    /\ authed = FALSE
    /\ gnow = 0
    /\ gpc = "idle"
    /\ gattempt = 1
    /\ listCalls = 0
    /\ raw = NoRaw
    /\ gresult = NoDriveResult
    /\ driveCalls = 0
    /\ schema = COLLECTION_CONFIG
    /\ ipc = "done"
    /\ kpc = "idle"
    /\ kresult = "none"
    /\ committed = {}
    /\ resets = 0
    /\ nvec = <<>>
    /\ npc = "idle"
    /\ nout = <<>>

BreakerNext ==
    \/ \E c \in Callers : ExecuteCall(c) /\ UNCHANGED <<retryVars, chunkVars, indexVars, queryVars, driveVars, lifecycleVars, normVars>>
    \/ \E c \in Callers : FnResolves(c) /\ UNCHANGED <<retryVars, chunkVars, indexVars, queryVars, driveVars, lifecycleVars, normVars>>
    \/ \E c \in Callers : FnRejects(c) /\ UNCHANGED <<retryVars, chunkVars, indexVars, queryVars, driveVars, lifecycleVars, normVars>>
    \/ getState /\ UNCHANGED <<retryVars, chunkVars, indexVars, queryVars, driveVars, lifecycleVars, normVars>>
    \/ Tick /\ UNCHANGED <<retryVars, chunkVars, indexVars, queryVars, driveVars, lifecycleVars, normVars>>

BreakerSpec == BreakerInit /\ [][BreakerNext]_vars

RetryNext ==
    \/ RetryFnResolves /\ UNCHANGED <<breakerVars, chunkVars, indexVars, queryVars, driveVars, lifecycleVars, normVars>>
    \/ RetryFnRejects /\ UNCHANGED <<breakerVars, chunkVars, indexVars, queryVars, driveVars, lifecycleVars, normVars>>
    \/ RetryDelayElapsed /\ UNCHANGED <<breakerVars, chunkVars, indexVars, queryVars, driveVars, lifecycleVars, normVars>>

RetrySpec == RetryInit /\ [][RetryNext]_vars

ChunkNext ==
    \/ DcaeStart /\ UNCHANGED <<breakerVars, retryVars, indexVars, queryVars, driveVars, lifecycleVars, normVars>>
    \/ ChunkLoopIter /\ UNCHANGED <<breakerVars, retryVars, indexVars, queryVars, driveVars, lifecycleVars, normVars>>
    \/ GenerateEmbeddings /\ UNCHANGED <<breakerVars, retryVars, indexVars, queryVars, driveVars, lifecycleVars, normVars>>

ChunkSpec == ChunkInit /\ [][ChunkNext]_vars

\* the adapter with its collection freshly created and empty
IndexInit ==
    /\ config = defaultCircuitBreakerConfig
    /\ state = initialState
    /\ now = 0
    /\ pc = [c \in Callers |-> "idle"]
    /\ outcome = [c \in Callers |-> "none"]
    /\ calls = 0
    /\ failRun = 0
    /\ admittedFrom = [c \in Callers |-> "none"]
    /\ rejections = 0
    /\ retryConfig = defaultRetryConfig
    /\ attempt = 1
    /\ rpc = "idle"
    /\ lastError = NoError
    /\ invocations = 0
    /\ rfails = 0
    /\ delays = <<>>
    /\ rresult = NoResult
    /\ input = NoInput
    /\ dpc = "idle"
    /\ startIndex = 0
    /\ chunkIndex = 0
    /\ chunks = <<>>
    /\ derr = NoErr
    /\ output = NoOutput
    /\ collection = EmptyIndex
    /\ upc = "idle"
    /\ op = "none"
    /\ points = <<>>
    /\ cursor = 0
    /\ retries = 0
    /\ uresult = NoValue
    /\ tries = 0
    /\ pointPauses = <<>>
    /\ cause = ""
    /\ retrieved = <<>>
    /\ latest = [pr \in IndexDocs \X ChunkIndexes |-> NoTag]
    /\ ncalls = 0
    /\ removed = 0
    /\ curDoc = "none"
    /\ curN = 0
    /\ oldN = 0
    /\ prevN = [d \in IndexDocs |-> 0]
    /\ qinput = NoQInput
    /\ via = "none"
    /\ qpc = "idle"
    /\ embedding = "none"
    /\ searchResults = <<>>
    /\ results = <<>>
    /\ context = NoContext
    /\ answer = NoAnswer
    /\ qoutput = NoQOutput
    /\ qerror = NoQError
    /\ response = NoResponse
    /\ failedStep = "none"
    /\ provider = "none"
    /\ driveBreaker = initialState
    /\ authed = FALSE
    /\ gnow = 0
    /\ gpc = "idle"
    /\ gattempt = 1
    /\ listCalls = 0
    /\ raw = NoRaw
    /\ gresult = NoDriveResult
    /\ driveCalls = 0
    /\ schema = COLLECTION_CONFIG
    /\ ipc = "done"
    /\ kpc = "idle"
    /\ kresult = "none"
    /\ committed = {}
    /\ resets = 0
    /\ nvec = <<>>
    /\ npc = "idle"
    /\ nout = <<>>

IndexNext ==
    \/ \E b \in Batches, f \in {"exists", "missing", "error"} :
          UpsertVectors(b, f) /\ UNCHANGED <<breakerVars, retryVars, chunkVars, queryVars, driveVars, lifecycleVars, normVars>>
    \/ \E ok \in BOOLEAN : UpsertPoint(ok) /\ UNCHANGED <<breakerVars, retryVars, chunkVars, queryVars, driveVars, lifecycleVars, normVars>>
    \/ \E r \in {"ok", "empty", "error"} :
          RetrievePoint(r) /\ UNCHANGED <<breakerVars, retryVars, chunkVars, queryVars, driveVars, lifecycleVars, normVars>>
    \/ PauseElapsed /\ UNCHANGED <<breakerVars, retryVars, chunkVars, queryVars, driveVars, lifecycleVars, normVars>>
    \/ \E d \in IndexDocs, ok \in BOOLEAN :
          DeleteVectors(d, ok) /\ UNCHANGED <<breakerVars, retryVars, chunkVars, queryVars, driveVars, lifecycleVars, normVars>>
    \/ \E d \in IndexDocs, n \in 1..2, f \in {"exists", "missing", "error"} :
          Ingest(d, n, f) /\ UNCHANGED <<breakerVars, retryVars, chunkVars, queryVars, driveVars, lifecycleVars, normVars>>

IndexSpec == IndexInit /\ [][IndexNext]_vars

\* a question arrives, at the chat route or at the document_qa_query tool
QueryInit ==
    /\ config = defaultCircuitBreakerConfig
    /\ state = initialState
    /\ now = 0
    /\ pc = [c \in Callers |-> "idle"]
    /\ outcome = [c \in Callers |-> "none"]
    /\ calls = 0
    /\ failRun = 0
    /\ admittedFrom = [c \in Callers |-> "none"]
    /\ rejections = 0
    /\ retryConfig = defaultRetryConfig
    /\ attempt = 1
    /\ rpc = "idle"
    /\ lastError = NoError
    /\ invocations = 0
    /\ rfails = 0
    /\ delays = <<>>
    /\ rresult = NoResult
    /\ input = NoInput
    /\ dpc = "idle"
    /\ startIndex = 0
    /\ chunkIndex = 0
    /\ chunks = <<>>
    /\ derr = NoErr
    /\ output = NoOutput
    /\ collection = EmptyIndex
    /\ upc = "idle"
    /\ op = "none"
    /\ points = <<>>
    /\ cursor = 0
    /\ retries = 0
    /\ uresult = NoValue
    /\ tries = 0
    /\ pointPauses = <<>>
    /\ cause = ""
    /\ retrieved = <<>>
    /\ latest = [pr \in IndexDocs \X ChunkIndexes |-> NoTag]
    /\ ncalls = 0
    /\ removed = 0
    /\ curDoc = "none"
    /\ curN = 0
    /\ oldN = 0
    /\ prevN = [d \in IndexDocs |-> 0]
    /\ qinput \in [query : Queries, maxResults : {Null, 2}]
    /\ via \in {"chat", "tool"}
    /\ qpc = IF via = "chat" THEN "route" ELSE "start"
    /\ embedding = "none"
    /\ searchResults = <<>>
    /\ results = <<>>
    /\ context = NoContext
    /\ answer = NoAnswer
    /\ qoutput = NoQOutput
    /\ qerror = NoQError
    /\ response = NoResponse
    /\ failedStep = "none"
    /\ provider = "none"
    /\ driveBreaker = initialState
    /\ authed = FALSE
    /\ gnow = 0
    /\ gpc = "idle"
    /\ gattempt = 1
    /\ listCalls = 0
    /\ raw = NoRaw
    /\ gresult = NoDriveResult
    /\ driveCalls = 0
    /\ schema = COLLECTION_CONFIG
    /\ ipc = "done"
    /\ kpc = "idle"
    /\ kresult = "none"
    /\ committed = {}
    /\ resets = 0
    /\ nvec = <<>>
    /\ npc = "idle"
    /\ nout = <<>>

QueryNext ==
    \/ ChatQuery /\ UNCHANGED <<breakerVars, retryVars, chunkVars, indexVars, driveVars, lifecycleVars, normVars>>
    \/ QaStart /\ UNCHANGED <<breakerVars, retryVars, chunkVars, indexVars, driveVars, lifecycleVars, normVars>>
    \/ \E how \in {"ok", "absent", "failed"} : GenerateEmbedding(how) /\ UNCHANGED <<breakerVars, retryVars, chunkVars, indexVars, driveVars, lifecycleVars, normVars>>
    \/ SearchFails /\ UNCHANGED <<breakerVars, retryVars, chunkVars, indexVars, driveVars, lifecycleVars, normVars>>
    \/ \E hits \in HitLists : SearchReturns(hits) /\ UNCHANGED <<breakerVars, retryVars, chunkVars, indexVars, driveVars, lifecycleVars, normVars>>
    \/ \E how \in {"ok", "absent", "failed"} : Generate(how) /\ UNCHANGED <<breakerVars, retryVars, chunkVars, indexVars, driveVars, lifecycleVars, normVars>>
    \/ ChatRespond /\ UNCHANGED <<breakerVars, retryVars, chunkVars, indexVars, driveVars, lifecycleVars, normVars>>

QuerySpec == QueryInit /\ [][QueryNext]_vars


\* the google-drive module freshly loaded: a new breaker, no credentials
DriveInit ==
    /\ driveBreaker = initialState
    /\ authed = FALSE
    /\ gnow \in StartTimes
    /\ gpc = "idle"
    /\ gattempt = 1
    /\ listCalls = 0
    /\ raw = NoRaw
    /\ gresult = NoDriveResult
    /\ driveCalls = 0
    /\ config = defaultCircuitBreakerConfig
    /\ state = initialState
    /\ now = 0
    /\ pc = [c \in Callers |-> "idle"]
    /\ outcome = [c \in Callers |-> "none"]
    /\ calls = 0
    /\ failRun = 0
    /\ admittedFrom = [c \in Callers |-> "none"]
    /\ rejections = 0
    /\ retryConfig = defaultRetryConfig
    /\ attempt = 1
    /\ rpc = "idle"
    /\ lastError = NoError
    /\ invocations = 0
    /\ rfails = 0
    /\ delays = <<>>
    /\ rresult = NoResult
    /\ input = NoInput
    /\ dpc = "idle"
    /\ startIndex = 0
    /\ chunkIndex = 0
    /\ chunks = <<>>
    /\ derr = NoErr
    /\ output = NoOutput
    /\ collection = EmptyIndex
    /\ upc = "idle"
    /\ op = "none"
    /\ points = <<>>
    /\ cursor = 0
    /\ retries = 0
    /\ uresult = NoValue
    /\ tries = 0
    /\ pointPauses = <<>>
    /\ cause = ""
    /\ retrieved = <<>>
    /\ latest = [pr \in IndexDocs \X ChunkIndexes |-> NoTag]
    /\ ncalls = 0
    /\ removed = 0
    /\ curDoc = "none"
    /\ curN = 0
    /\ oldN = 0
    /\ prevN = [d \in IndexDocs |-> 0]
    /\ qinput = NoQInput
    /\ via = "none"
    /\ qpc = "idle"
    /\ embedding = "none"
    /\ searchResults = <<>>
    /\ results = <<>>
    /\ context = NoContext
    /\ answer = NoAnswer
    /\ qoutput = NoQOutput
    /\ qerror = NoQError
    /\ response = NoResponse
    /\ failedStep = "none"
    /\ provider = "none"
    /\ schema = COLLECTION_CONFIG
    /\ ipc = "done"
    /\ kpc = "idle"
    /\ kresult = "none"
    /\ committed = {}
    /\ resets = 0
    /\ nvec = <<>>
    /\ npc = "idle"
    /\ nout = <<>>

DriveNext ==
    \/ setCredentials /\ UNCHANGED <<breakerVars, retryVars, chunkVars, indexVars, queryVars, lifecycleVars, normVars>>
    \/ googleDriveListFiles /\ UNCHANGED <<breakerVars, retryVars, chunkVars, indexVars, queryVars, lifecycleVars, normVars>>
    \/ ListResolves /\ UNCHANGED <<breakerVars, retryVars, chunkVars, indexVars, queryVars, lifecycleVars, normVars>>
    \/ \E e \in RawErrors : ListRejects(e) /\ UNCHANGED <<breakerVars, retryVars, chunkVars, indexVars, queryVars, lifecycleVars, normVars>>
    \/ DriveTick /\ UNCHANGED <<breakerVars, retryVars, chunkVars, indexVars, queryVars, lifecycleVars, normVars>>

DriveSpec == DriveInit /\ [][DriveNext]_vars

\* the vector service module has just been loaded: initializeCollection() was
\* called without await and its deleteCollection request is in flight; the
\* collection may be left over from an earlier run or an earlier reset
LifecycleInit ==
    /\ schema \in {NoSchema, COLLECTION_CONFIG, resetConfig}
    /\ ipc = "delete"
    /\ kpc = "idle"
    /\ kresult = "none"
    /\ committed = {}
    /\ resets = 0
    /\ config = defaultCircuitBreakerConfig
    /\ state = initialState
    /\ now = 0
    /\ pc = [c \in Callers |-> "idle"]
    /\ outcome = [c \in Callers |-> "none"]
    /\ calls = 0
    /\ failRun = 0
    /\ admittedFrom = [c \in Callers |-> "none"]
    /\ rejections = 0
    /\ retryConfig = defaultRetryConfig
    /\ attempt = 1
    /\ rpc = "idle"
    /\ lastError = NoError
    /\ invocations = 0
    /\ rfails = 0
    /\ delays = <<>>
    /\ rresult = NoResult
    /\ input = NoInput
    /\ dpc = "idle"
    /\ startIndex = 0
    /\ chunkIndex = 0
    /\ chunks = <<>>
    /\ derr = NoErr
    /\ output = NoOutput
    /\ collection = EmptyIndex
    /\ upc = "idle"
    /\ op = "none"
    /\ points = <<>>
    /\ cursor = 0
    /\ retries = 0
    /\ uresult = NoValue
    /\ tries = 0
    /\ pointPauses = <<>>
    /\ cause = ""
    /\ retrieved = <<>>
    /\ latest = [pr \in IndexDocs \X ChunkIndexes |-> NoTag]
    /\ ncalls = 0
    /\ removed = 0
    /\ curDoc = "none"
    /\ curN = 0
    /\ oldN = 0
    /\ prevN = [d \in IndexDocs |-> 0]
    /\ qinput = NoQInput
    /\ via = "none"
    /\ qpc = "idle"
    /\ embedding = "none"
    /\ searchResults = <<>>
    /\ results = <<>>
    /\ context = NoContext
    /\ answer = NoAnswer
    /\ qoutput = NoQOutput
    /\ qerror = NoQError
    /\ response = NoResponse
    /\ failedStep = "none"
    /\ provider = "none"
    /\ driveBreaker = initialState
    /\ authed = FALSE
    /\ gnow = 0
    /\ gpc = "idle"
    /\ gattempt = 1
    /\ listCalls = 0
    /\ raw = NoRaw
    /\ gresult = NoDriveResult
    /\ driveCalls = 0
    /\ nvec = <<>>
    /\ npc = "idle"
    /\ nout = <<>>

LifecycleNext ==
    \/ \E ok \in BOOLEAN : DeleteCollectionSettles(ok) /\ UNCHANGED <<breakerVars, retryVars, chunkVars, queryVars, driveVars, normVars>>
    \/ \E ok \in BOOLEAN : CreateCollectionSettles(ok) /\ UNCHANGED <<breakerVars, retryVars, chunkVars, queryVars, driveVars, normVars>>
    \/ resetKnowledgeBase /\ UNCHANGED <<breakerVars, retryVars, chunkVars, queryVars, driveVars, normVars>>
    \/ \E ok \in BOOLEAN : ResetDeleteSettles(ok) /\ UNCHANGED <<breakerVars, retryVars, chunkVars, queryVars, driveVars, normVars>>
    \/ \E ok \in BOOLEAN : ResetCreateSettles(ok) /\ UNCHANGED <<breakerVars, retryVars, chunkVars, queryVars, driveVars, normVars>>
    \/ \E b \in LifecycleBatches, failed \in BOOLEAN :
          StoreVectors(b, failed) /\ UNCHANGED <<breakerVars, retryVars, chunkVars, queryVars, driveVars, normVars>>
    \/ \E ok \in BOOLEAN : WritePoint(ok) /\ UNCHANGED <<breakerVars, retryVars, chunkVars, queryVars, driveVars, normVars>>
    \/ \E r \in {"ok", "empty", "error"} : ReadBack(r) /\ UNCHANGED <<breakerVars, retryVars, chunkVars, queryVars, driveVars, normVars>>
    \/ PauseBeforeRetry /\ UNCHANGED <<breakerVars, retryVars, chunkVars, queryVars, driveVars, normVars>>
    \/ \E ok \in BOOLEAN : RemoveVectors("doc1", ok) /\ UNCHANGED <<breakerVars, retryVars, chunkVars, queryVars, driveVars, normVars>>

LifecycleSpec == LifecycleInit /\ [][LifecycleNext]_vars

\* a vector about to be normalized
NormInit ==
    /\ nvec \in RawVectors
    /\ npc = "raw"
    /\ nout = <<>>
    /\ config = defaultCircuitBreakerConfig
    /\ state = initialState
    /\ now = 0
    /\ pc = [c \in Callers |-> "idle"]
    /\ outcome = [c \in Callers |-> "none"]
    /\ calls = 0
    /\ failRun = 0
    /\ admittedFrom = [c \in Callers |-> "none"]
    /\ rejections = 0
    /\ retryConfig = defaultRetryConfig
    /\ attempt = 1
    /\ rpc = "idle"
    /\ lastError = NoError
    /\ invocations = 0
    /\ rfails = 0
    /\ delays = <<>>
    /\ rresult = NoResult
    /\ input = NoInput
    /\ dpc = "idle"
    /\ startIndex = 0
    /\ chunkIndex = 0
    /\ chunks = <<>>
    /\ derr = NoErr
    /\ output = NoOutput
    /\ collection = EmptyIndex
    /\ upc = "idle"
    /\ op = "none"
    /\ points = <<>>
    /\ cursor = 0
    /\ retries = 0
    /\ uresult = NoValue
    /\ tries = 0
    /\ pointPauses = <<>>
    /\ cause = ""
    /\ retrieved = <<>>
    /\ latest = [pr \in IndexDocs \X ChunkIndexes |-> NoTag]
    /\ ncalls = 0
    /\ removed = 0
    /\ curDoc = "none"
    /\ curN = 0
    /\ oldN = 0
    /\ prevN = [d \in IndexDocs |-> 0]
    /\ qinput = NoQInput
    /\ via = "none"
    /\ qpc = "idle"
    /\ embedding = "none"
    /\ searchResults = <<>>
    /\ results = <<>>
    /\ context = NoContext
    /\ answer = NoAnswer
    /\ qoutput = NoQOutput
    /\ qerror = NoQError
    /\ response = NoResponse
    /\ failedStep = "none"
    /\ provider = "none"
    /\ driveBreaker = initialState
    /\ authed = FALSE
    /\ gnow = 0
    /\ gpc = "idle"
    /\ gattempt = 1
    /\ listCalls = 0
    /\ raw = NoRaw
    /\ gresult = NoDriveResult
    /\ driveCalls = 0
    /\ schema = COLLECTION_CONFIG
    /\ ipc = "done"
    /\ kpc = "idle"
    /\ kresult = "none"
    /\ committed = {}
    /\ resets = 0

NormNext ==
    \/ NormalizeForUpsert /\ UNCHANGED <<breakerVars, retryVars, chunkVars, indexVars, queryVars, driveVars, lifecycleVars>>
    \/ NormalizeMock /\ UNCHANGED <<breakerVars, retryVars, chunkVars, indexVars, queryVars, driveVars, lifecycleVars>>

NormSpec == NormInit /\ [][NormNext]_vars

(***************************************************************************)
(*                        Properties: CircuitBreaker                       *)
(***************************************************************************)

\* an execute() call is made in this step
ExecuteStep == calls' = calls + 1
\* caller c's wrapped function settles in this step
Completes(c, how) == pc[c] = "running" /\ pc'[c] = "idle" /\ outcome'[c] = how

\* C1: the failureThreshold-th consecutive failing execute() leaves the breaker
\* open, and an execute() made while the breaker is open and now < nextAttempt
\* is rejected with CIRCUIT_OPEN and starts no wrapped function.
C1_OpensAndRejects ==
    [][ /\ (failRun' = config.failureThreshold /\ failRun' # failRun)
              => state'.status = "open"
        /\ (ExecuteStep /\ state.status = "open" /\ now < state.nextAttempt)
              => /\ pc' = pc
                 /\ state'.status = "open"
                 /\ \E c \in Callers :
                       /\ pc[c] = "idle"
                       /\ outcome'[c] = "CIRCUIT_OPEN"
                       /\ \A d \in Callers \ {c} : outcome'[d] = outcome[d]
      ]_vars

C1_Witness ==
    \E c \in Callers :
       /\ outcome[c] = "CIRCUIT_OPEN"
       /\ admittedFrom[c] = "open"
       /\ state.status = "open"
       /\ now < state.nextAttempt
       /\ config.failureThreshold = 5
       /\ failRun = 5

\* C2: an execute() made while the breaker is open and now >= nextAttempt moves
\* the breaker to half-open and starts the wrapped function.
C2_RecoveryAdmitsCall ==
    [][ (ExecuteStep /\ state.status = "open" /\ state.nextAttempt # Null
           /\ now >= state.nextAttempt)
          => /\ state'.status = "half-open"
             /\ \E c \in Callers :
                   /\ pc[c] = "idle"
                   /\ pc'[c] = "running"
                   /\ outcome'[c] = "pending"
      ]_vars

C2_Witness ==
    \E c \in Callers :
       /\ pc[c] = "running"
       /\ admittedFrom[c] = "open"
       /\ state.status = "half-open"
       /\ now >= state.nextAttempt

Transitions ==
    { <<"closed", "open">>, <<"open", "half-open">>,
      <<"half-open", "closed">>, <<"half-open", "open">> }

\* C3: a call that succeeds while the breaker is half-open closes it with the
\* failure counter 0 and nextAttempt cleared, a call that fails while it is
\* half-open reopens it with nextAttempt = now + recoveryTimeout, and the
\* status only ever changes along closed->open, open->half-open,
\* half-open->closed, half-open->open.
C3_HalfOpenOutcome ==
    [][ /\ (state.status = "half-open" /\ \E c \in Callers : Completes(c, "resolved"))
              => /\ state'.status = "closed"
                 /\ state'.failures = 0
                 /\ state'.nextAttempt = Null
        /\ (state.status = "half-open" /\ \E c \in Callers : Completes(c, "rejected"))
              => /\ state'.status = "open"
                 /\ state'.nextAttempt = now + config.recoveryTimeout
        /\ state'.status # state.status
              => <<state.status, state'.status>> \in Transitions
      ]_vars

C3_Witness ==
    \E c \in Callers :
       /\ admittedFrom[c] = "open"
       /\ outcome[c] = "resolved"
       /\ state.status = "closed"
       /\ state.failures = 0
       /\ state.nextAttempt = Null
       /\ \A d \in Callers : pc[d] = "idle"

(***************************************************************************)
(*                          Properties: withRetry                          *)
(***************************************************************************)

\* C4: when withRetry returns after k failures (all retryable, k < maxAttempts)
\* it returns the value of the last invocation, after k+1 invocations and
\* exactly k pauses.
C4_SuccessAfterRetries ==
    rpc = "returned"
       => /\ rresult = [kind |-> "value", id |-> invocations]
          /\ invocations = rfails + 1
          /\ Len(delays) = rfails
          /\ rfails < retryConfig.maxAttempts

C4_Witness ==
    /\ rpc = "returned"
    /\ rfails = 2
    /\ retryConfig.maxAttempts = 3
    /\ Len(delays) = 2

\* C5: the operation is never invoked more than maxAttempts times; when every
\* attempt failed with a retryable code withRetry throws the error of the last
\* attempt after maxAttempts invocations and maxAttempts-1 pauses, and there
\* is no pause after the last attempt.
C5_ExhaustedRetries ==
    /\ invocations <= retryConfig.maxAttempts
    /\ rpc = "delay" => invocations < retryConfig.maxAttempts
    /\ (rpc = "threw" /\ lastError.code \in retryConfig.retryableErrors)
          => /\ invocations = retryConfig.maxAttempts
             /\ rfails = retryConfig.maxAttempts
             /\ Len(delays) = retryConfig.maxAttempts - 1
             /\ rresult = [kind |-> "error", id |-> invocations]

C5_Witness ==
    /\ rpc = "threw"
    /\ lastError.code = "RATE_LIMITED"
    /\ retryConfig.maxAttempts = 3
    /\ invocations = 3
    /\ Len(delays) = 2

\* C6: when an invocation fails with an error whose code is not in
\* retryableErrors (an error without code included), withRetry throws that
\* error in the same step, without a pause, and never invokes the operation
\* again.
C6_NonRetryableRethrown ==
    [][ /\ (invocations' = invocations + 1 /\ rfails' = rfails + 1
              /\ lastError'.code \notin retryConfig.retryableErrors)
              => /\ rpc' = "threw"
                 /\ rresult' = [kind |-> "error", id |-> lastError'.id]
                 /\ lastError'.id = invocations'
                 /\ delays' = delays
        /\ rpc = "threw" => (invocations' = invocations /\ delays' = delays)
      ]_vars

C6_Witness ==
    /\ rpc = "threw"
    /\ lastError.code = ""
    /\ attempt = 2
    /\ invocations = 2
    /\ Len(delays) = 1
    /\ rresult = [kind |-> "error", id |-> 2]

(***************************************************************************)
(*                    Properties: document processor                       *)
(***************************************************************************)

\* the input passes every validation and needs more than one chunk
ValidLongInput ==
    /\ firstError(input) = NoErr
    /\ input.content.len > chunkSizeOf(input)

\* C7: for a valid input whose text is longer than chunkSize the chunking loop
\* terminates: every iteration that does not leave the loop strictly increases
\* startIndex, so the loop is left after at most text.length iterations.
C7_LoopMakesProgress ==
    [][ (ValidLongInput /\ dpc = "chunking" /\ dpc' = "chunking")
          => startIndex' > startIndex ]_vars

\* C8: the chunks splitTextIntoChunks returns have strictly increasing start
\* offsets and the last one ends at text.length.
C8_OffsetsCoverText ==
    (dpc \in {"embedding", "returned"} /\ firstError(input) = NoErr)
       => /\ Len(chunks) > 0
          /\ \A k \in 1..(Len(chunks) - 1) : chunks[k].startOffset < chunks[k + 1].startOffset
          /\ chunks[Len(chunks)].endOffset = input.content.len

\* C9: a text that is not blank and not longer than chunkSize yields exactly
\* one chunk: index 0, offsets 0 and text.length, the whole text as content,
\* totalChunks 1.
C9_SingleChunk ==
    (dpc \in {"embedding", "returned"} /\ input.content.len <= chunkSizeOf(input))
       => /\ Len(chunks) = 1
          /\ chunks[1].index = 0
          /\ chunks[1].startOffset = 0
          /\ chunks[1].endOffset = input.content.len
          /\ chunks[1].content = input.content
          /\ chunks[1].metadata.chunkIndex = 0
          /\ chunks[1].metadata.totalChunks = 1
          /\ dpc = "returned" => output.totalChunks = 1

C9_Witness ==
    /\ dpc = "returned"
    /\ input.content = HelloWorld
    /\ input.chunkSize = 1000
    /\ Len(output.chunks) = 1

\* C10 as stated: whatever the other inputs, chunkOverlap >= chunkSize fails
\* with INVALID_CHUNK_OVERLAP and an empty or whitespace-only content fails
\* with EMPTY_DOCUMENT.
C10_AnyOtherInputs ==
    dpc # "start"
       => /\ chunkOverlapOf(input) >= chunkSizeOf(input)
               => (dpc = "threw" /\ derr.code = "INVALID_CHUNK_OVERLAP")
          /\ (input.content.kind = "string" /\ isBlank(input.content))
               => (dpc = "threw" /\ derr.code = "EMPTY_DOCUMENT")

\* the checks made before the overlap check pass
PassesEarlierChecks ==
    /\ missingFields(input) = {}
    /\ chunkSizeOf(input) >= MIN_CHUNK_SIZE
    /\ chunkSizeOf(input) <= MAX_CHUNK_SIZE

\* C10, amended: with the required fields present and chunkSize in
\* [100, 8000], chunkOverlap >= chunkSize fails with INVALID_CHUNK_OVERLAP;
\* with, in addition, chunkOverlap < chunkSize, an empty or whitespace-only
\* content fails with EMPTY_DOCUMENT; both errors reach the caller as thrown,
\* with their own code.
C10_ValidationOrder ==
    dpc # "start"
       => /\ (PassesEarlierChecks /\ chunkOverlapOf(input) >= chunkSizeOf(input))
               => (dpc = "threw" /\ derr = [code |-> "INVALID_CHUNK_OVERLAP", mcp |-> TRUE])
          /\ (PassesEarlierChecks /\ chunkOverlapOf(input) < chunkSizeOf(input)
                /\ input.content.kind = "string" /\ isBlank(input.content))
               => (dpc = "threw" /\ derr = [code |-> "EMPTY_DOCUMENT", mcp |-> TRUE])

C10_Witness ==
    /\ dpc = "threw"
    /\ derr.code = "EMPTY_DOCUMENT"
    /\ input.content = Str(3, {}, {0, 1, 2})
    /\ input.chunkSize = 100
    /\ input.chunkOverlap = 20

\* C11: in every chunk list returned for one document the chunk indices are
\* 0, 1, ..., n-1 in list order, every chunk reports the same totalChunks, and
\* that value is n, the number of chunks returned.
C11_ContiguousIndices ==
    dpc \in {"embedding", "returned"}
       => /\ \A k \in 1..Len(chunks) :
                /\ chunks[k].index = k - 1
                /\ chunks[k].metadata.chunkIndex = k - 1
                /\ chunks[k].metadata.totalChunks = Len(chunks)
          /\ dpc = "returned"
                => /\ output.totalChunks = Len(chunks)
                   /\ Len(output.chunks) = Len(chunks)
                   /\ \A k \in 1..Len(chunks) : output.chunks[k].chunk = chunks[k]

C11_Witness ==
    /\ dpc = "returned"
    /\ Len(output.chunks) = 3
    /\ output.chunks[3].chunk.index = 2
    /\ output.chunks[3].chunk.metadata.totalChunks = 3

(***************************************************************************)
(*                    Properties: vector index adapter                     *)
(***************************************************************************)

\* C12: upsertVectors writes each point with at most 3 attempts separated by
\* a pause of 1000 ms; it moves past a point only when the read-back returned
\* it, a read-back that fails or returns nothing is handled like a failed
\* write, and when the third attempt fails upsertVectors throws
\* VECTOR_DB_ERROR carrying the message of that attempt's error.
C12_ThreeVerifiedAttempts ==
    [][ /\ tries' <= 3
        /\ \A k \in 1..Len(pointPauses') : pointPauses'[k] = 1000
        /\ upc' = "write" => Len(pointPauses') = tries'
        /\ upc' = "pause" => tries' < 3
        /\ (upc \in {"write", "verify"} /\ (cursor' = cursor + 1 \/ upc' = "returned"))
              => (upc = "verify" /\ Len(retrieved') > 0)
        /\ (upc = "verify" /\ Len(retrieved') = 0)
              => /\ upc' \in {"pause", "threw"}
                 /\ cursor' = cursor
                 /\ upc' = "threw" <=> tries = 3
        /\ (upc = "write" /\ upc' # "verify")
              => /\ upc' \in {"pause", "threw"}
                 /\ upc' = "threw" <=> tries' = 3
        /\ (upc \in {"write", "verify"} /\ upc' = "threw")
              => /\ tries' = 3
                 /\ Len(pointPauses') = 2
                 /\ uresult' = [kind |-> "error", code |-> "VECTOR_DB_ERROR", mcp |-> TRUE,
                                originalError |-> cause']
                 /\ cause' \in {"upsert failed", "retrieve failed", "Point verification failed"}
      ]_vars

C12_Witness ==
    /\ upc = "threw"
    /\ op = "upsert"
    /\ cursor = 2
    /\ tries = 3
    /\ Len(pointPauses) = 2
    /\ cause = "Point verification failed"
    /\ uresult.originalError = "Point verification failed"

\* C13: after any sequence of upserts, for every pair (documentId, chunkIndex)
\* written and not deleted since, the collection holds exactly one point for
\* that pair, under the id derived from the pair, and it carries the vector
\* and payload most recently written for the pair.
C13_OnePointPerPair ==
    \A pr \in DOMAIN latest :
       latest[pr] # NoTag
          => LET ids == {i \in DOMAIN collection :
                            /\ collection[i].payload.document_id = pr[1]
                            /\ collection[i].payload.chunk_index = pr[2]}
             IN /\ ids = {pointId(pr[1], pr[2])}
                /\ \A i \in ids : /\ collection[i].vector = latest[pr]
                                  /\ collection[i].payload.content = latest[pr]

\* C14: deleteVectors(documentId) removes every point whose payload
\* document_id is documentId, leaves every other point in place and returns
\* the number of points it removed.
C14_DeleteReturnsCount ==
    [][ (op' = "delete" /\ ncalls' = ncalls + 1 /\ upc' = "returned")
          => \E d \in IndexDocs :
                LET gone == {i \in DOMAIN collection : collection[i].payload.document_id = d}
                IN /\ DOMAIN collection' = DOMAIN collection \ gone
                   /\ \A i \in DOMAIN collection' : collection'[i] = collection[i]
                   /\ removed' = Cardinality(gone)
                   /\ uresult' = [kind |-> "value", value |-> Cardinality(gone)]
      ]_vars

\* C15: when a document that was ingested before has been ingested again,
\* every point of that document in the collection belongs to the new version:
\* no point of the earlier version with a higher chunk index is left.
C15_OnlyNewVersion ==
    (upc = "returned" /\ op = "ingest" /\ oldN > 0)
       => \A i \in DOMAIN collection :
             collection[i].payload.document_id = curDoc
                => /\ collection[i].vector.call = ncalls
                   /\ collection[i].payload.chunk_index < curN

(***************************************************************************)
(*                    Properties: question answering                       *)
(***************************************************************************)

\* the hit cleared the relevance threshold documentQAQuery asks for
clears(h) == h.score >= qaThreshold

\* C16: the results of vectorSimilaritySearch, and the sources documentQAQuery
\* returns, are exactly the hits of the search with score >= threshold, in the
\* same order; when no hit clears the threshold they are empty and the query
\* still succeeds.
C16_SourcesClearThreshold ==
    LET kept == SelectSeq(searchResults, clears) IN
    /\ qpc \in {"generate", "returned"}
          => /\ Len(results) = Len(kept)
             /\ \A k \in 1..Len(kept) : /\ results[k].score = kept[k].score
                                        /\ results[k].content = kept[k].content
    /\ qpc = "returned"
          => /\ Len(qoutput.sources) = Len(kept)
             /\ \A k \in 1..Len(qoutput.sources) : qoutput.sources[k].score >= qaThreshold

\* C17 as stated: when the embedding step or the vector search fails,
\* documentQAQuery throws DOCUMENT_QA_ERROR carrying the underlying cause.
C17_WrappedAsQaError ==
    (qpc = "threw" /\ failedStep \in {"embedding", "search"})
       => /\ qerror.code = "DOCUMENT_QA_ERROR"
          /\ qerror.originalError # ""

\* C17, amended: when the vector search fails documentQAQuery throws the
\* VECTOR_DB_ERROR of searchSimilar unchanged, with the underlying cause; the
\* embedding step fails only for a query it cannot iterate (null), and then
\* documentQAQuery throws VECTOR_SEARCH_ERROR with the cause; a failing or
\* absent embedding provider does not fail the query; DOCUMENT_QA_ERROR is
\* thrown only for an error that is not an MCPError, with its message as cause.
C17_LowerLayerErrorKept ==
    /\ (qpc = "threw" /\ failedStep = "search")
          => qerror = [code |-> "VECTOR_DB_ERROR", mcp |-> TRUE,
                       message |-> "Failed to search vector database",
                       originalError |-> "search failed"]
    /\ (qpc = "threw" /\ failedStep = "embedding")
          => /\ qinput.query.kind = "null"
             /\ qerror.code = "VECTOR_SEARCH_ERROR"
             /\ qerror.originalError = "null is not iterable"
    /\ (qpc = "threw" /\ failedStep = "validation") => qerror.code = "INVALID_INPUT"
    /\ qerror.code = "DOCUMENT_QA_ERROR"
          => /\ failedStep = "generation"
             /\ qerror.originalError = "safeQuery.split is not a function"

C17_Witness ==
    /\ qpc = "threw"
    /\ failedStep = "search"
    /\ embedding = "mock"
    /\ qinput.query = QString(<<104, 105>>)
    /\ qerror.code = "VECTOR_DB_ERROR"
    /\ qerror.originalError = "search failed"

\* the sources are those of the results, whatever the generation did
SourcesFromResults ==
    /\ Len(qoutput.sources) = Len(results)
    /\ \A k \in 1..Len(results) :
          qoutput.sources[k] = [documentId |-> results[k].metadata.documentId,
                                content |-> results[k].content, score |-> results[k].score]

\* the canned answer the hash of the query selects
HashSelected ==
    LET safeQuery == IF qinput.query.codes = <<>> THEN unknownQuery ELSE qinput.query.codes
    IN qoutput.answer = [kind |-> "canned", index |-> SumSeq(safeQuery) % 4,
                         query |-> safeQuery]

C19_ConfidenceFollowsThreshold ==
    (qpc = "responded" /\ response.success)
       => /\ response.confidence = "high"
                <=> \E k \in 1..Len(response.sources) : response.sources[k].score >= qaThreshold
          /\ response.confidence \in {"high", "low"}
          /\ searchResults = <<>> => (response.sources = <<>> /\ response.confidence = "low")

\* the contents prepareContext was called with
contentsOf(hits) == [k \in 1..Len(hits) |-> hits[k].content]

\* the length of the first n chunks joined as prepareContext joins them
\* (empty chunks skipped, 7 characters between chunks, each chunk behind its
\* "[n] " prefix), without any limit
RECURSIVE concatLength(_, _)
concatLength(cl, n) ==
    IF n = 0 THEN 0
    ELSE LET before == concatLength(cl, n - 1) IN
         IF cl[n] = 0 THEN before
         ELSE (IF before > 0 THEN before + 7 ELSE 0) + (IF n < 10 THEN 4 ELSE 5) + cl[n]

\* the context is cut at the first chunk with which the joined text gets at
\* least `least` characters long: it is then the first 4000 characters
\* followed by the marker, and no chunk behind that one is appended; a text
\* that stays shorter is the context, whole and without marker
ContextCutFrom(least) ==
    LET cl == contentsOf(searchResults)
        long == {n \in 1..Len(cl) : cl[n] # 0 /\ concatLength(cl, n) >= least}
        appended == {context.parts[j] : j \in 1..Len(context.parts)}
    IN /\ context.len + (IF context.marker THEN markerLength ELSE 0)
             <= MAX_CONTEXT_LENGTH + markerLength
       /\ long # {}
             => /\ context.len = MAX_CONTEXT_LENGTH
                /\ context.marker
                /\ appended = {n \in 1..Min(long) : cl[n] # 0}
       /\ long = {}
             => /\ context.len = concatLength(cl, Len(cl))
                /\ ~context.marker
                /\ appended = {n \in 1..Len(cl) : cl[n] # 0}

C21_RateLimitedIsRetried ==
    (gpc = "threw" /\ raw # NoRaw) =>
        /\ gresult.code = "RATE_LIMITED" => listCalls = defaultRetryConfig.maxAttempts
        /\ gresult.code = "AUTHENTICATION_FAILED" => listCalls = 1

(***************************************************************************)
(*                    Properties: partial success                          *)
(***************************************************************************)

\* the number of items whose status a result of upsertVectors names: the
\* count it returns stands for every point, an error names none
itemsReported(r) == IF r.kind = "value" THEN r.value ELSE 0

\* upsertVectors wrote and verified at least one point and gave up on a later one
PartialUpsert ==
    /\ op \in {"upsert", "ingest"}
    /\ upc = "threw"
    /\ cause # ""
    /\ cursor > 1

\* C22: when upsertVectors over N points succeeds for M of them and fails on
\* the rest, its result reports a status for each of the N points.
C22_PartialSuccessReported ==
    PartialUpsert => itemsReported(uresult) = Len(points)

(***************************************************************************)
(*                    Properties: index lifecycle                          *)
(***************************************************************************)

\* C23: after startup creation and after any number of resets the collection
\* has one fixed vector dimension and the cosine metric, and that dimension is
\* the length of the vectors the embedding step produces.
C23_DimensionFixed ==
    (ipc = "done" /\ kpc # "create" /\ schema # NoSchema) =>
        /\ schema = COLLECTION_CONFIG
        /\ \A how \in EmbeddingSources : embeddingLength(how) = schema.size

\* C30: the points written by an upsertVectors call that returned successfully
\* stay retrievable until deleteVectors or a reset is invoked, whatever the
\* un-awaited initializeCollection of the module load does meanwhile.
C30_WrittenPointsStay ==
    \A id \in committed : qdrantRetrieve(collection, id) # <<>>

(***************************************************************************)
(*             Properties: CircuitBreaker under concurrent callers         *)
(***************************************************************************)

\* C24: with several execute() calls in flight on one breaker, every rejected
\* completion raises the failure count by one and settles the status in the
\* same step, so the count always equals the number of rejections since the
\* last reset; and no wrapped function is started while the breaker is open
\* and now < nextAttempt.
C24_AtomicCompletions ==
    [][ /\ state'.failures = rejections'
        /\ \A c \in Callers :
              Completes(c, "rejected")
                 => /\ state'.failures = state.failures + 1
                    /\ state'.failures >= config.failureThreshold => state'.status = "open"
        /\ \A c \in Callers :
              (state.status = "open" /\ now < state.nextAttempt)
                 => ~(pc[c] = "idle" /\ pc'[c] = "running")
      ]_vars

\* a call admitted while the breaker was closed is still in flight after the
\* rejection of the other call has opened the breaker
C24_Witness ==
    /\ config.failureThreshold = 1
    /\ calls = 2
    /\ pc["c1"] = "running"
    /\ admittedFrom["c1"] = "closed"
    /\ admittedFrom["c2"] = "closed"
    /\ outcome["c2"] = "rejected"
    /\ state.status = "open"
    /\ state.failures = 1

\* C28: status closed implies failures < failureThreshold, and status open or
\* half-open implies nextAttempt is set.
C28_StatusInvariant ==
    /\ state.status = "closed" => state.failures < config.failureThreshold
    /\ state.status \in {"open", "half-open"} => state.nextAttempt # Null

\* getState() has moved the open breaker to half-open while a call admitted
\* earlier is still in flight
C28_Witness ==
    /\ state.status = "half-open"
    /\ state.nextAttempt # Null
    /\ state.failures >= config.failureThreshold
    /\ \E c \in Callers : pc[c] = "running" /\ admittedFrom[c] = "closed"
    /\ \A c \in Callers : admittedFrom[c] # "open"

RECURSIVE squaredNorm(_)
squaredNorm(v) == IF v = <<>> THEN 0 ELSE Head(v).val * Head(v).val + squaredNorm(Tail(v))

hasNaN(v) == \E k \in DOMAIN v : v[k].nan

\* C25: wherever a vector is normalized, a vector of norm 0 comes out as the
\* zero vector, with no NaN component, and every other vector comes out with
\* norm 1.
C25_NoDivisionByZero ==
    npc # "raw" =>
        /\ ~hasNaN(nout)
        /\ IF sumOfSquares(nvec) = 0
           THEN \A k \in DOMAIN nout : nout[k].val = 0
           ELSE squaredNorm(nout) = Scale * Scale

(***************************************************************************)
(*                    Properties: sentence boundaries                      *)
(***************************************************************************)

\* position i holds '.', '!' or '?' followed by whitespace or by the end of the text
terminal(t, i) ==
    /\ i >= 0 /\ i < t.len
    /\ i \in t.enders
    /\ (i + 1 = t.len \/ (i + 1) \in t.spaces)

Abs(x) == IF x < 0 THEN -x ELSE x

\* the raw edge of the window that starts at startIndex
windowEdge == startIndex + chunkSizeOf(input)

\* an iteration of the chunking loop cuts a window that ends before the end of the text
CutsWindow ==
    /\ ValidLongInput
    /\ dpc = "chunking"
    /\ startIndex' # startIndex
    /\ windowEdge < input.content.len

\* where that iteration cut: startIndex is set to endIndex - chunkOverlap
cutOfStep == startIndex' + chunkOverlapOf(input)

\* C27 as stated: the cut is just after the sentence-terminal character
\* nearest to the window edge among those within 100 characters on either
\* side, and at the raw window edge when there is none.
C27_NearestBoundary ==
    [][ CutsWindow =>
          LET t == input.content
              near == {i \in (windowEdge - 100)..(windowEdge + 100) : terminal(t, i)}
          IN IF near = {}
             THEN cutOfStep = windowEdge
             ELSE \E i \in near :
                     /\ cutOfStep = i + 1
                     /\ \A j \in near : Abs(j - windowEdge) >= Abs(i - windowEdge)
      ]_vars

\* C27, amended: the cut is just after the last sentence-terminal character
\* among the 101 positions edge-100..edge; when there is none, just after the
\* first one among the positions edge..edge+99; when there is none either,
\* at the raw window edge.
C27_BackwardThenForward ==
    [][ CutsWindow =>
          LET t == input.content
              back == {i \in (windowEdge - 100)..windowEdge : terminal(t, i)}
              forw == {i \in windowEdge..(windowEdge + 99) : terminal(t, i)}
          IN cutOfStep = IF back # {} THEN Max(back) + 1
                         ELSE IF forw # {} THEN Min(forw) + 1
                         ELSE windowEdge
      ]_vars

\* a terminal character 90 before the edge wins over one 2 after it
C27_Witness ==
    /\ input.content = Str(1200, {910, 1002}, {911, 1003})
    /\ chunkSizeOf(input) = 1000
    /\ Len(chunks) >= 1
    /\ chunks[1].startOffset = 0
    /\ chunks[1].endOffset = 911

(***************************************************************************)
(*                    Properties: point ids within a document              *)
(***************************************************************************)

\* the points of the call all belong to one document and have pairwise
\* different chunk indices
OneDocumentBatch ==
    /\ Len(points) > 0
    /\ \A k, l \in 1..Len(points) :
          /\ points[k].payload.document_id = points[l].payload.document_id
          /\ k # l => points[k].payload.chunk_index # points[l].payload.chunk_index

\* C26: within one document different chunk indices yield different point
\* ids, so after upsertVectors has stored n chunks of a document the
\* collection holds n distinct points, one for each chunk.
C26_DistinctIdsInDocument ==
    (op \in {"upsert", "ingest"} /\ upc = "returned" /\ OneDocumentBatch) =>
        /\ \A k, l \in 1..Len(points) : k # l => points[k].id # points[l].id
        /\ \A k \in 1..Len(points) :
              /\ points[k].id \in DOMAIN collection
              /\ collection[points[k].id].payload = points[k].payload

====
